---- MODULE Spec2Model ----
(***************************************************************************)
(* whisper-dictation: the post-processing pipeline (pipeline.py), the      *)
(* voice-command engine (voice_commands.py), the profile matcher           *)
(* (profiles.py) and the silence detector (continuous.py).                 *)
(*                                                                         *)
(* A Python str is a sequence of one-character strings; bytes are a         *)
(* sequence of numbers 0..255.                                              *)
(***************************************************************************)
EXTENDS Integers, Sequences, FiniteSets, TLC

(***************************************************************************)
(* Characters and the str methods the code uses                            *)
(***************************************************************************)
LowerLetters == <<"a","b","c","d","e","f","g","h","i","j","k","l","m",
                  "n","o","p","q","r","s","t","u","v","w","x","y","z">>

UpperLetters == <<"A","B","C","D","E","F","G","H","I","J","K","L","M",
                  "N","O","P","Q","R","S","T","U","V","W","X","Y","Z">>

Range(s) == {s[i] : i \in DOMAIN s}

IsLower(c) == c \in Range(LowerLetters)

IsUpper(c) == c \in Range(UpperLetters)

\* \s of the re module, and the characters str.strip() removes
IsSpace(c) == c \in {" ", "\t", "\n"}

\* \w of the re module
IsWordChar(c) == IsLower(c) \/ IsUpper(c) \/ c \in {"0", "1", "_"}

\* str.upper() of one character
UpperChar(c) ==
  IF IsLower(c) THEN UpperLetters[CHOOSE i \in DOMAIN LowerLetters : LowerLetters[i] = c]
  ELSE c

\* str.lower() of one character
LowerChar(c) ==
  IF IsUpper(c) THEN LowerLetters[CHOOSE i \in DOMAIN UpperLetters : UpperLetters[i] = c]
  ELSE c

\* str.lower()
Lower(s) == [i \in DOMAIN s |-> LowerChar(s[i])]

\* s[a:b] with 0-based Python bounds 0 <= a, b <= len(s)
Slice(s, a, b) == IF b <= a THEN <<>> ELSE SubSeq(s, a + 1, b)

RECURSIVE LStrip(_)
\* str.lstrip()
LStrip(s) == IF s # <<>> /\ IsSpace(Head(s)) THEN LStrip(Tail(s)) ELSE s

RECURSIVE RStrip(_)
\* str.rstrip()
RStrip(s) ==
  IF s # <<>> /\ IsSpace(s[Len(s)]) THEN RStrip(SubSeq(s, 1, Len(s) - 1)) ELSE s

\* str.strip()
Strip(s) == LStrip(RStrip(s))

RECURSIVE SpaceRun(_, _)
\* the number of whitespace characters of s from 0-based position p on
SpaceRun(s, p) ==
  IF p < Len(s) /\ IsSpace(s[p + 1]) THEN 1 + SpaceRun(s, p + 1) ELSE 0

\* whether lit occurs in s at 0-based position p, compared as re.IGNORECASE does
MatchesAt(s, p, lit) ==
  /\ p + Len(lit) <= Len(s)
  /\ \A i \in 1..Len(lit) : LowerChar(s[p + i]) = LowerChar(lit[i])

\* the same, case-sensitively
MatchesExactlyAt(s, p, lit) ==
  /\ p + Len(lit) <= Len(s)
  /\ \A i \in 1..Len(lit) : s[p + i] = lit[i]

(***************************************************************************)
(* voice_commands.py                                                       *)
(***************************************************************************)
\* the spoken phrases and their replacements, in the dict's insertion order
\* ("u2014" stands for the one character U+2014, the em dash)
BUILTIN_COMMANDS == <<
  [key |-> <<"p","e","r","i","o","d">>,
   val |-> <<".">>],
  [key |-> <<"f","u","l","l"," ","s","t","o","p">>,
   val |-> <<".">>],
  [key |-> <<"c","o","m","m","a">>,
   val |-> <<",">>],
  [key |-> <<"q","u","e","s","t","i","o","n"," ","m","a","r","k">>,
   val |-> <<"?">>],
  [key |-> <<"e","x","c","l","a","m","a","t","i","o","n"," ","m","a","r","k">>,
   val |-> <<"!">>],
  [key |-> <<"e","x","c","l","a","m","a","t","i","o","n"," ","p","o","i","n","t">>,
   val |-> <<"!">>],
  [key |-> <<"c","o","l","o","n">>,
   val |-> <<":">>],
  [key |-> <<"s","e","m","i","c","o","l","o","n">>,
   val |-> <<";">>],
  [key |-> <<"d","a","s","h">>,
   val |-> <<"u2014">>],
  [key |-> <<"h","y","p","h","e","n">>,
   val |-> <<"-">>],
  [key |-> <<"e","l","l","i","p","s","i","s">>,
   val |-> <<".",".",".">>],
  [key |-> <<"o","p","e","n"," ","q","u","o","t","e">>,
   val |-> <<"\"">>],
  [key |-> <<"c","l","o","s","e"," ","q","u","o","t","e">>,
   val |-> <<"\"">>],
  [key |-> <<"o","p","e","n"," ","p","a","r","e","n">>,
   val |-> <<"(">>],
  [key |-> <<"c","l","o","s","e"," ","p","a","r","e","n">>,
   val |-> <<")">>],
  [key |-> <<"n","e","w"," ","l","i","n","e">>,
   val |-> <<"\n">>],
  [key |-> <<"n","e","w"," ","p","a","r","a","g","r","a","p","h">>,
   val |-> <<"\n","\n">>],
  [key |-> <<"t","a","b">>,
   val |-> <<"\t">>],
  [key |-> <<"a","m","p","e","r","s","a","n","d">>,
   val |-> <<"&">>],
  [key |-> <<"a","t"," ","s","i","g","n">>,
   val |-> <<"@">>],
  [key |-> <<"h","a","s","h","t","a","g">>,
   val |-> <<"#">>],
  [key |-> <<"d","o","l","l","a","r"," ","s","i","g","n">>,
   val |-> <<"$">>],
  [key |-> <<"p","e","r","c","e","n","t"," ","s","i","g","n">>,
   val |-> <<"%">>],
  [key |-> <<"a","s","t","e","r","i","s","k">>,
   val |-> <<"*">>],
  [key |-> <<"u","n","d","e","r","s","c","o","r","e">>,
   val |-> <<"_">>],
  [key |-> <<"p","l","u","s"," ","s","i","g","n">>,
   val |-> <<"+">>],
  [key |-> <<"e","q","u","a","l","s"," ","s","i","g","n">>,
   val |-> <<"=">>],
  [key |-> <<"s","l","a","s","h">>,
   val |-> <<"/">>],
  [key |-> <<"b","a","c","k","s","l","a","s","h">>,
   val |-> <<"\\">>]
>>

\* the characters that attach to the previous word
ATTACH_LEFT == {".", ",", "?", "!", ":", ";"}

\* the phrases that delete the preceding clause, in the dict's insertion order
ACTION_COMMANDS == <<
  <<"d","e","l","e","t","e"," ","t","h","a","t">>,
  <<"s","c","r","a","t","c","h"," ","t","h","a","t">>,
  <<"u","n","d","o"," ","t","h","a","t">>
>>

RECURSIVE LastBoundary(_, _)
\* the largest 1-based i <= n with text[i] in ".!?\n", or 0
LastBoundary(text, n) ==
  IF n = 0 THEN 0
  ELSE IF text[n] \in {".", "!", "?", "\n"} THEN n
  ELSE LastBoundary(text, n - 1)

\* _delete_last_clause
DeleteLastClause(text0) ==
  LET text == RStrip(text0)
      i == LastBoundary(text, Len(text))
  IN  IF text = <<>> THEN text
      ELSE IF i > 0 THEN SubSeq(text, 1, i) \o <<" ">>
      ELSE <<>>

RECURSIVE SearchFrom(_, _, _)
\* pattern.search for an escaped literal under re.IGNORECASE: the 0-based start
\* of the first occurrence at or after p, or -1
SearchFrom(text, lit, p) ==
  IF p + Len(lit) > Len(text) THEN -1
  ELSE IF MatchesAt(text, p, lit) THEN p
  ELSE SearchFrom(text, lit, p + 1)

ActionOnce_keeps_clause(text, phrase) ==
  LET start == SearchFrom(text, phrase, 0)
      before == RStrip(Slice(text, 0, start))
      after == LStrip(Slice(text, start + Len(phrase), Len(text)))
  IN  before \o after

\* one iteration of the while loop over an action phrase
ActionOnce(text, phrase) ==
  LET start == SearchFrom(text, phrase, 0)
      before == RStrip(Slice(text, 0, start))
      after == LStrip(Slice(text, start + Len(phrase), Len(text)))
  IN  DeleteLastClause(before) \o after

RECURSIVE ActionLoop(_, _)
\* while pattern.search(text): ...
ActionLoop(text, phrase) ==
  IF SearchFrom(text, phrase, 0) = -1 THEN text
  ELSE ActionLoop(ActionOnce(text, phrase), phrase)

RECURSIVE ActionPass(_, _)
\* for action_phrase, action_type in ACTION_COMMANDS.items(): ...
ActionPass(text, i) ==
  IF i > Len(ACTION_COMMANDS) THEN text
  ELSE ActionPass(ActionLoop(text, ACTION_COMMANDS[i]), i + 1)

\* the position of key in the command map, or 0
KeyIndex(commands, key) ==
  IF \E i \in DOMAIN commands : commands[i].key = key
  THEN CHOOSE i \in DOMAIN commands : commands[i].key = key
  ELSE 0

\* commands[key] = val on an insertion-ordered dict
DictSet(commands, key, val) ==
  IF KeyIndex(commands, key) # 0
  THEN [commands EXCEPT ![KeyIndex(commands, key)].val = val]
  ELSE Append(commands, [key |-> key, val |-> val])

RECURSIVE MergeCommands_keeps_case(_, _, _)
\* the merge storing cmd["from"] as it is written, not lowercased
MergeCommands_keeps_case(commands, custom, i) ==
  IF i > Len(custom) THEN commands
  ELSE IF "from" \in DOMAIN custom[i] /\ "to" \in DOMAIN custom[i]
       THEN MergeCommands_keeps_case(DictSet(commands, custom[i].from, custom[i].to),
                                     custom, i + 1)
       ELSE MergeCommands_keeps_case(commands, custom, i + 1)

RECURSIVE MergeCommands(_, _, _)
\* commands = dict(BUILTIN_COMMANDS), then the custom commands that hold both
\* a "from" and a "to"
MergeCommands(commands, custom, i) ==
  IF i > Len(custom) THEN commands
  ELSE IF "from" \in DOMAIN custom[i] /\ "to" \in DOMAIN custom[i]
       THEN MergeCommands(DictSet(commands, Lower(custom[i].from), custom[i].to),
                          custom, i + 1)
       ELSE MergeCommands(commands, custom, i + 1)

RECURSIVE SortedKeys(_, _)
\* sorted(commands.keys(), key=len, reverse=True): a stable sort, so keys of one
\* length keep the dict's order; taken is the set of positions already placed
SortedKeys(commands, taken) ==
  LET left == DOMAIN commands \ taken
      best == CHOOSE i \in left :
                \A j \in left :
                  \/ Len(commands[i].key) > Len(commands[j].key)
                  \/ Len(commands[i].key) = Len(commands[j].key) /\ i <= j
  IN  IF left = {} THEN <<>>
      ELSE <<commands[best].key>> \o SortedKeys(commands, taken \cup {best})

\* \b at 0-based position p
WordBoundary(text, p) ==
  (p >= 1 /\ IsWordChar(text[p])) # (p < Len(text) /\ IsWordChar(text[p + 1]))

\* the alternatives that match \b(?:...)\b at p, by their position in the pattern
AltsAt(text, p, alts) ==
  {i \in DOMAIN alts :
     /\ WordBoundary(text, p)
     /\ MatchesAt(text, p, alts[i])
     /\ WordBoundary(text, p + Len(alts[i]))}

\* the leading whitespace counts k for which \s*\b(?:...)\b\s* matches from s
LeadsAt(text, s, alts) ==
  {k \in 0..SpaceRun(text, s) : AltsAt(text, s + k, alts) # {}}

Max(S) == CHOOSE x \in S : \A y \in S : y <= x

Min(S) == CHOOSE x \in S : \A y \in S : x <= y

\* the end of the match of \s*\b(?:...)\b\s* that starts at s: \s* is greedy, the
\* alternatives are tried in the pattern's order
MatchEnd(text, s, alts) ==
  LET k == Max(LeadsAt(text, s, alts))
      alt == alts[Min(AltsAt(text, s + k, alts))]
      e == s + k + Len(alt)
  IN  e + SpaceRun(text, e)

\* _replace_match for the match text[s:e]
ReplaceMatch(text, s, e, commands) ==
  LET matched_text == Lower(Strip(Slice(text, s, e)))
      i == KeyIndex(commands, matched_text)
      replacement == IF i # 0 THEN commands[i].val ELSE matched_text
  IN  IF Len(replacement) = 1 /\ replacement[1] \in ATTACH_LEFT
        THEN replacement \o <<" ">>
      ELSE IF replacement \in {<<"\n">>, <<"\n", "\n">>, <<"\t">>}
        THEN replacement
      ELSE IF replacement \in {<<"(">>, <<"\"">>} /\ s > 0
        THEN <<" ">> \o replacement
      ELSE IF replacement \in {<<")">>, <<"\"">>}
        THEN replacement \o <<" ">>
      ELSE <<" ">> \o replacement \o <<" ">>

RECURSIVE SubstitutePass(_, _, _, _, _)
\* the finditer loop: s is the position the scan is at, last_end the end of the
\* previous match
SubstitutePass(text, s, last_end, alts, commands) ==
  IF s > Len(text) THEN Slice(text, last_end, Len(text))
  ELSE IF LeadsAt(text, s, alts) = {}
       THEN SubstitutePass(text, s + 1, last_end, alts, commands)
       ELSE LET e == MatchEnd(text, s, alts)
            IN  Slice(text, last_end, s)
                  \o ReplaceMatch(text, s, e, commands)
                  \o SubstitutePass(text, e, e, alts, commands)

RECURSIVE RunOf(_, _, _)
\* the number of characters of set cs in s from 0-based position p on
RunOf(s, p, cs) ==
  IF p < Len(s) /\ s[p + 1] \in cs THEN 1 + RunOf(s, p + 1, cs) ELSE 0

RECURSIVE CollapseSpaces(_, _)
\* re.sub(r'[ \t]{2,}', ' ', text)
CollapseSpaces(s, p) ==
  IF p >= Len(s) THEN <<>>
  ELSE LET r == RunOf(s, p, {" ", "\t"})
       IN  IF r >= 2 THEN <<" ">> \o CollapseSpaces(s, p + r)
           ELSE <<s[p + 1]>> \o CollapseSpaces(s, p + 1)

RECURSIVE DropSpacesBefore(_, _, _)
\* re.sub(r' +([.,?!:;])', r'\1', text) and re.sub(r' +\n', '\n', text), with cs
\* the characters the spaces must come before
DropSpacesBefore(s, p, cs) ==
  IF p >= Len(s) THEN <<>>
  ELSE LET r == RunOf(s, p, {" "})
       IN  IF r >= 1 /\ p + r < Len(s) /\ s[p + r + 1] \in cs
           THEN <<s[p + r + 1]>> \o DropSpacesBefore(s, p + r + 1, cs)
           ELSE <<s[p + 1]>> \o DropSpacesBefore(s, p + 1, cs)

RECURSIVE ReplaceLiteral(_, _, _, _)
\* re.sub of a pattern that matches exactly the non-empty string lit, by repl
ReplaceLiteral(s, p, lit, repl) ==
  IF p >= Len(s) THEN <<>>
  ELSE IF MatchesExactlyAt(s, p, lit)
       THEN repl \o ReplaceLiteral(s, p + Len(lit), lit, repl)
       ELSE <<s[p + 1]>> \o ReplaceLiteral(s, p + 1, lit, repl)

Normalize_keeps_bracket_space(text) ==
  LET t1 == CollapseSpaces(text, 0)
      t2 == DropSpacesBefore(t1, 0, ATTACH_LEFT)
      t3 == DropSpacesBefore(t2, 0, {"\n"})
      t4 == ReplaceLiteral(t3, 0, <<"(", " ">>, <<"(">>)
  IN  Strip(t4)

\* the five clean-up substitutions and the final strip()
Normalize(text) ==
  LET t1 == CollapseSpaces(text, 0)
      t2 == DropSpacesBefore(t1, 0, ATTACH_LEFT)
      t3 == DropSpacesBefore(t2, 0, {"\n"})
      t4 == ReplaceLiteral(t3, 0, <<"(", " ">>, <<"(">>)
      t5 == ReplaceLiteral(t4, 0, <<" ", ")">>, <<")">>)
  IN  Strip(t5)

\* the call writing the custom commands into the module's dict:
\* commands = BUILTIN_COMMANDS instead of commands = dict(BUILTIN_COMMANDS)
VoiceCommandsCall_in_place(builtin, text, custom_commands) ==
  IF text = <<>> THEN [text |-> text, builtin |-> builtin]
  ELSE LET commands == MergeCommands(builtin, custom_commands, 1)
           t1 == ActionPass(text, 1)
           alts == SortedKeys(commands, {})
           t2 == SubstitutePass(t1, 0, 0, alts, commands)
       IN  [text |-> Normalize(t2), builtin |-> commands]

\* a call of apply_voice_commands while the module's BUILTIN_COMMANDS holds
\* builtin: the text returned and the dict the module holds afterwards
\* (commands = dict(BUILTIN_COMMANDS) is a copy, the module's dict is not written)
VoiceCommandsCall(builtin, text, custom_commands) ==
  IF text = <<>> THEN [text |-> text, builtin |-> builtin]
  ELSE LET commands == MergeCommands(builtin, custom_commands, 1)
           t1 == ActionPass(text, 1)
           alts == SortedKeys(commands, {})
           t2 == SubstitutePass(t1, 0, 0, alts, commands)
       IN  [text |-> Normalize(t2), builtin |-> builtin]

\* apply_voice_commands in a freshly imported module
apply_voice_commands(text, custom_commands) ==
  VoiceCommandsCall(BUILTIN_COMMANDS, text, custom_commands).text

(***************************************************************************)
(* pipeline.py: the steps                                                  *)
(***************************************************************************)
RECURSIVE CapAfterEnders(_, _)
\* re.sub(r'([.!?]\s+)([a-z])', lambda m: m.group(1) + m.group(2).upper(), text)
CapAfterEnders(s, p) ==
  IF p >= Len(s) THEN <<>>
  ELSE LET k == SpaceRun(s, p + 1)
       IN  IF /\ s[p + 1] \in {".", "!", "?"}
              /\ k >= 1
              /\ p + 1 + k < Len(s)
              /\ IsLower(s[p + k + 2])
           THEN Slice(s, p, p + 1 + k) \o <<UpperChar(s[p + k + 2])>>
                  \o CapAfterEnders(s, p + k + 2)
           ELSE <<s[p + 1]>> \o CapAfterEnders(s, p + 1)

RECURSIVE CapAfterNewlines_once(_, _)
\* the same re.sub given count=1: only the first match is replaced
CapAfterNewlines_once(s, p) ==
  IF p >= Len(s) THEN <<>>
  ELSE LET k == SpaceRun(s, p + 1)
       IN  IF /\ s[p + 1] = "\n"
              /\ p + 1 + k < Len(s)
              /\ IsLower(s[p + k + 2])
           THEN Slice(s, p, p + 1 + k) \o <<UpperChar(s[p + k + 2])>>
                  \o Slice(s, p + k + 2, Len(s))
           ELSE <<s[p + 1]>> \o CapAfterNewlines_once(s, p + 1)

RECURSIVE CapAfterNewlines(_, _)
\* re.sub(r'(\n\s*)([a-z])', lambda m: m.group(1) + m.group(2).upper(), text)
CapAfterNewlines(s, p) ==
  IF p >= Len(s) THEN <<>>
  ELSE LET k == SpaceRun(s, p + 1)
       IN  IF /\ s[p + 1] = "\n"
              /\ p + 1 + k < Len(s)
              /\ IsLower(s[p + k + 2])
           THEN Slice(s, p, p + 1 + k) \o <<UpperChar(s[p + k + 2])>>
                  \o CapAfterNewlines(s, p + k + 2)
           ELSE <<s[p + 1]>> \o CapAfterNewlines(s, p + 1)

\* AutoCapitalizeStep.process on the text
AutoCapitalize(text) ==
  IF text = <<>> THEN text
  ELSE LET t1 == <<UpperChar(text[1])>> \o Tail(text)
           t2 == CapAfterEnders(t1, 0)
       IN  CapAfterNewlines(t2, 0)

RECURSIVE ParenDepth(_, _, _)
\* the nesting depth after pattern[i..], or -1 once a ")" closes nothing
ParenDepth(pattern, i, depth) ==
  IF depth < 0 THEN -1
  ELSE IF i > Len(pattern) THEN depth
  ELSE IF pattern[i] = "(" THEN ParenDepth(pattern, i + 1, depth + 1)
  ELSE IF pattern[i] = ")" THEN ParenDepth(pattern, i + 1, depth - 1)
  ELSE ParenDepth(pattern, i + 1, depth)

\* whether re.compile(pattern) raises re.error, for patterns made of letters,
\* "-", "|" and parentheses: an unterminated or unopened group
ReError(pattern) == ParenDepth(pattern, 1, 0) # 0

RECURSIVE Interleave(_, _)
\* re.sub('', repl, text): the empty pattern matches before every character and
\* at the end
Interleave(repl, text) ==
  IF text = <<>> THEN repl
  ELSE repl \o <<Head(text)>> \o Interleave(repl, Tail(text))

\* re.sub(pattern, repl, text) for a pattern of plain characters and a
\* replacement without backslashes
ReSub(pattern, repl, text) ==
  IF pattern = <<>> THEN Interleave(repl, text)
  ELSE ReplaceLiteral(text, 0, pattern, repl)

\* dict.get(key, default)
Get(d, key, default) == IF key \in DOMAIN d THEN d[key] ELSE default

\* one iteration of the loop of CustomReplacementStep.process
ApplyRule(text, rule) ==
  LET pattern == Get(rule, "pattern", <<>>)
      replacement == Get(rule, "replacement", <<>>)
  IN  IF pattern # <<>>
      THEN IF ReError(pattern) THEN text ELSE ReSub(pattern, replacement, text)
      ELSE text

RECURSIVE CustomReplacement_break(_, _, _)
\* CustomReplacementStep.process with "break" for "continue": the first rule that
\* re.sub rejects ends the loop
CustomReplacement_break(text, replacements, i) ==
  IF i > Len(replacements) THEN text
  ELSE IF Get(replacements[i], "pattern", <<>>) # <<>>
          /\ ReError(Get(replacements[i], "pattern", <<>>))
       THEN text
       ELSE CustomReplacement_break(ApplyRule(text, replacements[i]), replacements, i + 1)

RECURSIVE CustomReplacement(_, _, _)
\* CustomReplacementStep.process on the text, from rule i on
CustomReplacement(text, replacements, i) ==
  IF i > Len(replacements) THEN text
  ELSE CustomReplacement(ApplyRule(text, replacements[i]), replacements, i + 1)

\* the classes each exception the LLM step can meet is an instance of
ExceptionBases(exc) ==
  CASE exc = "URLError" -> {"URLError", "OSError"}
    [] exc = "TimeoutError" -> {"TimeoutError", "OSError"}
    [] exc = "JSONDecodeError" -> {"JSONDecodeError", "ValueError"}
    [] exc = "UnicodeDecodeError" -> {"UnicodeDecodeError", "UnicodeError", "ValueError"}
    [] exc = "AttributeError" -> {"AttributeError"}
    [] OTHER -> {}

\* except (urllib.error.URLError, TimeoutError, json.JSONDecodeError, OSError)
LLMCaught(exc) ==
  ExceptionBases(exc) \cap {"URLError", "TimeoutError", "JSONDecodeError", "OSError"} # {}

\* the exception the body of the try block raises on reply, or "" for none
LLMException(reply) ==
  IF reply.kind # "body" THEN reply.kind
  ELSE IF ~reply.utf8 THEN "UnicodeDecodeError"
  ELSE IF ~reply.json THEN "JSONDecodeError"
  ELSE IF reply.value.type # "object" THEN "AttributeError"
  ELSE IF Get(reply.value.fields, "response", [type |-> "string", s |-> <<>>]).type
            # "string"
       THEN "AttributeError"
  ELSE ""

\* result.get("response", "").strip() of a reply that raises nothing
LLMCleaned(reply) ==
  Strip(Get(reply.value.fields, "response", [type |-> "string", s |-> <<>>]).s)

\* the payload of the request the LLM step sends
LLMRequest(step, text) ==
  [url |-> step.endpoint \o <<"/","a","p","i","/","g","e","n","e","r","a","t","e">>,
   model |-> step.model,
   prompt |-> step.prompt \o <<"\n", "\n">> \o text,
   stream |-> FALSE]

\* LLMCleanupStep.process without "if cleaned:": an empty result replaces the text
LLMCleanup_empty_replaces(step, text, reply) ==
  IF step.model = <<>>
  THEN [text |-> text, sent |-> <<>>, raises |-> ""]
  ELSE LET exc == LLMException(reply)
       IN  [text |-> IF exc = "" THEN LLMCleaned(reply) ELSE text,
            sent |-> <<LLMRequest(step, text)>>,
            raises |-> IF exc # "" /\ ~LLMCaught(exc) THEN exc ELSE ""]

\* LLMCleanupStep.process: the text it leaves, the requests it sent and the
\* exception it lets through ("" when it returns)
LLMCleanup(step, text, reply) ==
  IF step.model = <<>>
  THEN [text |-> text, sent |-> <<>>, raises |-> ""]
  ELSE LET exc == LLMException(reply)
       IN  [text |-> IF exc = "" /\ LLMCleaned(reply) # <<>>
                     THEN LLMCleaned(reply) ELSE text,
            sent |-> <<LLMRequest(step, text)>>,
            raises |-> IF exc # "" /\ ~LLMCaught(exc) THEN exc ELSE ""]

(***************************************************************************)
(* pipeline.py: the context and build_pipeline                             *)
(***************************************************************************)
\* __post_init__ with the test inverted: original_text is never filled in
PostInit_inverted(c) ==
  IF c.original_text # <<>> THEN [c EXCEPT !.original_text = c.text] ELSE c

\* PipelineContext.__post_init__
PostInit(c) ==
  IF c.original_text = <<>> THEN [c EXCEPT !.original_text = c.text] ELSE c

\* PipelineContext(text=text, ...), as every caller constructs it
PipelineContext(text) == PostInit([text |-> text, original_text |-> <<>>])

VoiceCommandStep(custom_commands) ==
  [name |-> "Voice Commands", custom_commands |-> custom_commands]

AutoCapitalizeStep == [name |-> "Auto Capitalize"]

CustomReplacementStep(replacements) ==
  [name |-> "Custom Replacements", replacements |-> replacements]

RECURSIVE RStripSlash(_)
\* str.rstrip("/")
RStripSlash(s) ==
  IF s # <<>> /\ s[Len(s)] = "/" THEN RStripSlash(SubSeq(s, 1, Len(s) - 1)) ELSE s

LLMCleanupStep(endpoint, model, prompt) ==
  [name |-> "LLM Cleanup", endpoint |-> RStripSlash(endpoint), model |-> model,
   prompt |-> prompt]

\* build_pipeline with the first two blocks exchanged
build_pipeline_capitalize_first(cfg, profile_overrides) ==
  LET voice_enabled ==
        Get(profile_overrides, "voice_commands",
            cfg.pipeline.voice_commands /\ cfg.voice_commands.enabled)
      auto_cap == Get(profile_overrides, "auto_capitalize", cfg.pipeline.auto_capitalize)
  IN  (IF auto_cap THEN <<AutoCapitalizeStep>> ELSE <<>>)
      \o (IF voice_enabled THEN <<VoiceCommandStep(cfg.voice_commands.custom)>> ELSE <<>>)
      \o (IF cfg.pipeline.custom_replacements # <<>>
          THEN <<CustomReplacementStep(cfg.pipeline.custom_replacements)>> ELSE <<>>)
      \o (IF cfg.pipeline.llm.enabled
          THEN <<LLMCleanupStep(cfg.pipeline.llm.endpoint, cfg.pipeline.llm.model,
                                cfg.pipeline.llm.prompt)>>
          ELSE <<>>)

\* build_pipeline reading auto_capitalize from the configuration only
build_pipeline_global_capitalize(cfg, profile_overrides) ==
  LET voice_enabled ==
        Get(profile_overrides, "voice_commands",
            cfg.pipeline.voice_commands /\ cfg.voice_commands.enabled)
      auto_cap == cfg.pipeline.auto_capitalize
  IN  (IF voice_enabled THEN <<VoiceCommandStep(cfg.voice_commands.custom)>> ELSE <<>>)
      \o (IF auto_cap THEN <<AutoCapitalizeStep>> ELSE <<>>)
      \o (IF cfg.pipeline.custom_replacements # <<>>
          THEN <<CustomReplacementStep(cfg.pipeline.custom_replacements)>> ELSE <<>>)
      \o (IF cfg.pipeline.llm.enabled
          THEN <<LLMCleanupStep(cfg.pipeline.llm.endpoint, cfg.pipeline.llm.model,
                                cfg.pipeline.llm.prompt)>>
          ELSE <<>>)

\* build_pipeline: the step list of the Pipeline it returns
build_pipeline(cfg, profile_overrides) ==
  LET voice_enabled ==
        Get(profile_overrides, "voice_commands",
            cfg.pipeline.voice_commands /\ cfg.voice_commands.enabled)
      auto_cap == Get(profile_overrides, "auto_capitalize", cfg.pipeline.auto_capitalize)
  IN  (IF voice_enabled THEN <<VoiceCommandStep(cfg.voice_commands.custom)>> ELSE <<>>)
      \o (IF auto_cap THEN <<AutoCapitalizeStep>> ELSE <<>>)
      \o (IF cfg.pipeline.custom_replacements # <<>>
          THEN <<CustomReplacementStep(cfg.pipeline.custom_replacements)>> ELSE <<>>)
      \o (IF cfg.pipeline.llm.enabled
          THEN <<LLMCleanupStep(cfg.pipeline.llm.endpoint, cfg.pipeline.llm.model,
                                cfg.pipeline.llm.prompt)>>
          ELSE <<>>)

(***************************************************************************)
(* profiles.py                                                             *)
(***************************************************************************)
RECURSIVE FirstAlternative(_)
\* the part of a pattern before its first "|"
FirstAlternative(pattern) ==
  IF pattern = <<>> \/ Head(pattern) = "|" THEN <<>>
  ELSE <<Head(pattern)>> \o FirstAlternative(Tail(pattern))

RECURSIVE Alternatives(_)
\* the alternatives of a pattern of plain characters and "|"
Alternatives(pattern) ==
  LET first == FirstAlternative(pattern)
  IN  IF Len(first) = Len(pattern) THEN {first}
      ELSE {first} \cup Alternatives(SubSeq(pattern, Len(first) + 2, Len(pattern)))

\* whether re.search(pattern, string, re.IGNORECASE) finds a match, for a
\* pattern of plain characters and "|"
ReSearchIgnoreCase(pattern, string) ==
  \E alt \in Alternatives(pattern) : SearchFrom(string, alt, 0) # -1

\* the override map with a voice_commands entry next to the rule's fields
RuleOverrides_with_voice(rule) ==
  [k \in (IF rule.typing_method # <<>> THEN {"typing_method"} ELSE {})
           \cup {"auto_capitalize", "voice_commands"} |->
     IF k = "typing_method" THEN rule.typing_method[1]
     ELSE IF k = "auto_capitalize" /\ rule.auto_capitalize # <<>> THEN rule.auto_capitalize[1]
     ELSE TRUE]

\* the dict built from a matching rule: its fields that are not None (a field is
\* <<>> for None and <<v>> for the value v)
RuleOverrides(rule) ==
  [k \in (IF rule.typing_method # <<>> THEN {"typing_method"} ELSE {})
           \cup (IF rule.auto_capitalize # <<>> THEN {"auto_capitalize"} ELSE {}) |->
     IF k = "typing_method" THEN rule.typing_method[1] ELSE rule.auto_capitalize[1]]

RECURSIVE ProfileLoop_until_fields(_, _, _)
\* the loop returning only a non-empty dict: a matching rule without fields is
\* passed over
ProfileLoop_until_fields(rules, observed, i) ==
  IF i > Len(rules) THEN [k \in {} |-> TRUE]
  ELSE LET pattern == rules[i].window_class
       IN  IF pattern = <<>> THEN ProfileLoop_until_fields(rules, observed, i + 1)
           ELSE IF ReError(pattern) THEN ProfileLoop_until_fields(rules, observed, i + 1)
           ELSE IF ReSearchIgnoreCase(pattern, observed)
                   /\ DOMAIN RuleOverrides(rules[i]) # {}
                THEN RuleOverrides(rules[i])
           ELSE ProfileLoop_until_fields(rules, observed, i + 1)

RECURSIVE ProfileLoop(_, _, _)
\* for rule in config.profiles.rules: ..., from rule i on
ProfileLoop(rules, observed, i) ==
  IF i > Len(rules) THEN [k \in {} |-> TRUE]
  ELSE LET pattern == rules[i].window_class
       IN  IF pattern = <<>> THEN ProfileLoop(rules, observed, i + 1)
           ELSE IF ReError(pattern) THEN ProfileLoop(rules, observed, i + 1)
           ELSE IF ReSearchIgnoreCase(pattern, observed) THEN RuleOverrides(rules[i])
           ELSE ProfileLoop(rules, observed, i + 1)

\* get_profile_overrides
get_profile_overrides(cfg, observed) ==
  IF ~cfg.profiles.enabled \/ observed = <<>> THEN [k \in {} |-> TRUE]
  ELSE ProfileLoop(cfg.profiles.rules, observed, 1)

(***************************************************************************)
(* continuous.py: SilenceDetector                                          *)
(***************************************************************************)
\* int(x) of the fraction a/b, b > 0: the fraction cut towards zero
IntOf(a, b) == IF a >= 0 THEN a \div b ELSE -((-a) \div b)

\* SilenceDetector.__init__; a duration is the fraction num/den of a second and
\* a threshold the fraction num/32768 of full scale
SilenceDetector(threshold, duration, sample_rate) ==
  [threshold |-> threshold, duration |-> duration, sample_rate |-> sample_rate,
   silent_samples |-> 0,
   required_samples |-> IntOf(duration.num * sample_rate, duration.den)]

\* struct.unpack('<h', ...) of the two bytes lo, hi
Int16(lo, hi) ==
  IF lo + 256 * hi >= 32768 THEN lo + 256 * hi - 65536 ELSE lo + 256 * hi

RECURSIVE SumOfSquares(_, _)
\* sum(v * v for v in values) over the first n samples of the chunk
SumOfSquares(samples, n) ==
  IF n = 0 THEN 0
  ELSE LET v == Int16(samples[2 * n - 1], samples[2 * n])
       IN  v * v + SumOfSquares(samples, n - 1)

\* rms < self.threshold for a chunk of at least one sample:
\* sqrt(sum / n) / 32768 < num / 32768
BelowThreshold(samples, threshold) ==
  LET n_samples == Len(samples) \div 2
  IN  /\ threshold.num > 0
      /\ SumOfSquares(samples, n_samples) < n_samples * threshold.num * threshold.num

\* SilenceDetector.feed with "+=" written "=": the counter holds the last chunk
feed_overwrites(d, samples) ==
  IF Len(samples) < 2 THEN [detector |-> d, ret |-> FALSE]
  ELSE LET n_samples == Len(samples) \div 2
           count == IF BelowThreshold(samples, d.threshold) THEN n_samples ELSE 0
       IN  [detector |-> [d EXCEPT !.silent_samples = count],
            ret |-> count >= d.required_samples]

\* SilenceDetector.feed with "else: pass": a loud chunk leaves the counter
feed_keeps_count(d, samples) ==
  IF Len(samples) < 2 THEN [detector |-> d, ret |-> FALSE]
  ELSE LET n_samples == Len(samples) \div 2
           count == IF BelowThreshold(samples, d.threshold)
                    THEN d.silent_samples + n_samples
                    ELSE d.silent_samples
       IN  [detector |-> [d EXCEPT !.silent_samples = count],
            ret |-> count >= d.required_samples]

\* SilenceDetector.feed answering a short chunk with the comparison instead of
\* False
feed_short_reports(d, samples) ==
  IF Len(samples) < 2
  THEN [detector |-> d, ret |-> d.silent_samples >= d.required_samples]
  ELSE LET n_samples == Len(samples) \div 2
           count == IF BelowThreshold(samples, d.threshold)
                    THEN d.silent_samples + n_samples
                    ELSE 0
       IN  [detector |-> [d EXCEPT !.silent_samples = count],
            ret |-> count >= d.required_samples]

\* SilenceDetector.feed: the detector afterwards and the value returned
feed(d, samples) ==
  IF Len(samples) < 2 THEN [detector |-> d, ret |-> FALSE]
  ELSE LET n_samples == Len(samples) \div 2
           count == IF BelowThreshold(samples, d.threshold)
                    THEN d.silent_samples + n_samples
                    ELSE 0
       IN  [detector |-> [d EXCEPT !.silent_samples = count],
            ret |-> count >= d.required_samples]

\* SilenceDetector.reset
reset(d) == [d EXCEPT !.silent_samples = 0]

(***************************************************************************)
(* State                                                                   *)
(***************************************************************************)
VARIABLES
  config,        \* the Config the session loaded
  overrides,     \* the per-application override map handed to build_pipeline
  window_class,  \* the focused window's class
  steps,         \* Pipeline.steps
  ctx,           \* the PipelineContext
  transcript,    \* the text transcribe_audio returned
  pc,            \* where the session is
  idx,           \* the position of Pipeline.process in self.steps (1-based)
  requests,      \* the requests sent to the LLM endpoint
  applied,       \* history: the steps Pipeline.process called, in call order
  raised,        \* the exception that left Pipeline.process, "" if none
  detector,      \* the SilenceDetector
  fed,           \* history: the calls made on the detector and what they returned
  vocabulary,    \* the module-level dict voice_commands.BUILTIN_COMMANDS
  invocations,   \* the pipeline invocations running side by side in one process
  capture,       \* the capture loop of continuous mode: its flag, clock and recording
  args,          \* the argparse Namespace of the running command, <<>> when none runs
  cookie,        \* the lines written to COOKIE_FILE, <<>> when the file does not exist
  transcribed,   \* history: the calls of transcribe_audio by the end command
  history,       \* the TranscriptionHistory: its file, its limit, the last query
  listener,      \* the WakeWordListener: its fields and where its loop stands
  begins,        \* the begin commands running side by side and the live recorders
  savers,        \* the sessions inside TranscriptionHistory.save, side by side
  action_pass    \* the action pass of apply_voice_commands, iteration by iteration

\* the state outside one session's pipeline run and the detector
\* the state of the wake-word listener and of the commands run side by side
concurrent == <<listener, begins, savers, action_pass>>

others == <<vocabulary, invocations, capture, args, cookie, transcribed, history, concurrent>>

vars == <<config, overrides, window_class, steps, ctx, transcript, pc, idx, requests,
          applied, raised, detector, fed, others>>

(***************************************************************************)
(* Bounds and inputs                                                       *)
(***************************************************************************)
\* the longest custom_replacements list
MaxRules == 3

\* all sequences over S of length at most n
SeqsUpTo(S, n) == UNION {[1..k -> S] : k \in 0..n}

\* the empty dict
EmptyMap == [k \in {} |-> TRUE]

R_cat == [pattern |-> <<"c","a","t">>, replacement |-> <<"d","o","g">>]

R_dog == [pattern |-> <<"d","o","g">>, replacement |-> <<"c","a","t">>]

\* a pattern re.compile rejects
R_bad == [pattern |-> <<"(">>, replacement |-> <<"x">>]

\* a rule whose pattern is the empty string
R_empty == [pattern |-> <<>>, replacement |-> <<"-">>]

Rules == {R_cat, R_dog, R_bad, R_empty}

T_hello_period_world ==
  <<"h","e","l","l","o"," ","p","e","r","i","o","d"," ","w","o","r","l","d">>

T_Hello_World == <<"H","e","l","l","o","."," ","W","o","r","l","d">>

T_cat_dog == <<"a"," ","c","a","t","."," ","a"," ","d","o","g">>

T_scratch ==
  <<"n","o"," ","s","c","r","a","t","c","h"," ","t","h","a","t"," ","c","a","t">>

\* the transcriptions a session runs its pipeline on: transcribe_audio strips
\* its result and every session skips an empty one
Texts == {T_hello_period_world, T_cat_dog, T_scratch}

\* the texts a "response" field may hold
ResponseTexts == {<<>>, <<" ", "\n">>, <<" ","o","k"," ">>, <<"H","i">>}

JsonString(s) == [type |-> "string", s |-> s]

\* what the endpoint may answer to one request
Replies ==
  {[kind |-> "URLError"], [kind |-> "TimeoutError"],
   [kind |-> "body", utf8 |-> FALSE],
   [kind |-> "body", utf8 |-> TRUE, json |-> FALSE],
   [kind |-> "body", utf8 |-> TRUE, json |-> TRUE, value |-> [type |-> "array"]],
   [kind |-> "body", utf8 |-> TRUE, json |-> TRUE,
    value |-> [type |-> "object", fields |-> EmptyMap]],
   [kind |-> "body", utf8 |-> TRUE, json |-> TRUE,
    value |-> [type |-> "object", fields |-> [response |-> [type |-> "number"]]]]}
  \cup {[kind |-> "body", utf8 |-> TRUE, json |-> TRUE,
         value |-> [type |-> "object", fields |-> [response |-> JsonString(s)]]] :
          s \in ResponseTexts}

\* no request was sent, so nothing answered
NoReply == [kind |-> "none"]

Endpoint == <<"h","t","t","p",":","/","/","h","/">>

Prompt == <<"C","l","e","a","n",":">>

\* Config(), the defaults of config.py, with the fields the model reads
MakeConfig(pv, ve, custom, ac, rules, le, model, pe, prules) ==
  [model |-> [name |-> "base.en", device |-> "auto"],
   pipeline |-> [auto_capitalize |-> ac, voice_commands |-> pv,
                 custom_replacements |-> rules,
                 llm |-> [enabled |-> le, endpoint |-> Endpoint, model |-> model,
                          prompt |-> Prompt]],
   voice_commands |-> [enabled |-> ve, custom |-> custom],
   continuous |-> [silence_threshold |-> [num |-> 983],
                   silence_duration |-> [num |-> 3, den |-> 2],
                   max_chunk_duration |-> [num |-> 30, den |-> 1]],
   profiles |-> [enabled |-> pe, rules |-> prules]]

DefaultConfig == MakeConfig(TRUE, TRUE, <<>>, TRUE, <<>>, FALSE, <<>>, FALSE, <<>>)

Models == {<<>>, <<"m">>}

\* the custom_replacements lists of the sessions whose pipeline run is followed
SessionRuleLists == SeqsUpTo(Rules, 1) \cup {<<R_bad, R_cat>>, <<R_cat, R_dog>>}

\* the configurations of those sessions
SessionConfigs ==
  {MakeConfig(pv, TRUE, <<>>, ac, rules, llm[1], llm[2], FALSE, <<>>) :
     pv \in BOOLEAN, ac \in BOOLEAN, rules \in SessionRuleLists,
     llm \in {<<FALSE, <<>> >>, <<TRUE, <<>> >>, <<TRUE, <<"m">> >>}}

\* the override maps of those sessions
SessionOverrides == {EmptyMap, [auto_capitalize |-> FALSE]}

\* sample_rate: int = 16000
SampleRate == 16000

\* SilenceDetector(), the defaults: threshold 0.03 (983/32768), duration 1.5
DefaultDetector == SilenceDetector([num |-> 983], [num |-> 3, den |-> 2], SampleRate)

\* the module as imported, and no invocation running beside the session
NoInvocations == vocabulary = BUILTIN_COMMANDS /\ invocations = <<>>

\* ContinuousDictation(config) before start(): time is counted in tenths of a
\* second from the start of the recording; heard tells whether audio arrived and
\* whether all of it was above the threshold
NoCapture ==
  capture = [running |-> FALSE, now |-> 0, heard |-> "nothing", recorder_writes |-> TRUE,
             cut_at |-> <<>>, handed |-> FALSE]

\* no command running, no recording started by begin
NoCommand == args = <<>> /\ cookie = <<>> /\ transcribed = <<>>

\* history.py: DEFAULT max_entries of TranscriptionHistory.__init__
DefaultMaxEntries == 10000

\* no history file yet, no query made; saved counts the entries saved
NoHistory ==
  history = [file |-> <<>>, max_entries |-> DefaultMaxEntries, saved |-> 0,
             asked |-> <<>>, recent |-> <<>>]

\* nothing going on outside the session's pipeline run and the detector
\* no listener started
NoListener ==
  listener = [running |-> FALSE, recording |-> FALSE, rec_proc |-> <<>>, audio_path |-> <<>>,
              at |-> "off", alive |-> {}, spawned |-> 0, detections |-> <<>>]

\* no command running beside another
NoConcurrent ==
  /\ NoListener
  /\ begins = [procs |-> <<>>, alive |-> {}]
  /\ savers = <<>>
  /\ action_pass = [text |-> <<>>, phrase |-> 1, at |-> "off"]

Idle == NoInvocations /\ NoCapture /\ NoCommand /\ NoHistory /\ NoConcurrent

(***************************************************************************)
(* The session: build the pipeline, construct the context, run the steps   *)
(***************************************************************************)
\* no pipeline built, no context
NoPipeline ==
  /\ window_class = <<>>
  /\ steps = <<>>
  /\ ctx = PipelineContext(<<>>)
  /\ idx = 0
  /\ requests = <<>>
  /\ applied = <<>>
  /\ raised = ""

\* a detector nothing was fed to
NoFeeds == detector = DefaultDetector /\ fed = <<>>

InitCommon == NoPipeline /\ NoFeeds /\ Idle

\* a session that has transcribed a recording
Init ==
  /\ InitCommon
  /\ pc = "start"
  /\ config \in SessionConfigs
  /\ overrides \in SessionOverrides
  /\ transcript \in Texts

\* pipeline = build_pipeline(config, overrides)
BuildPipeline ==
  /\ pc = "start"
  /\ steps' = build_pipeline(config, overrides)
  /\ pc' = "built"
  /\ UNCHANGED <<config, overrides, window_class, transcript, ctx, idx, requests, applied, raised,
                 detector, fed, others>>

\* ctx = PipelineContext(text=text, ...); pipeline.process(ctx) is entered
NewContext ==
  /\ pc = "built"
  /\ ctx' = PipelineContext(transcript)
  /\ idx' = 1
  /\ pc' = "running"
  /\ UNCHANGED <<config, overrides, window_class, transcript, steps, requests, applied, raised,
                 detector, fed, others>>

\* the loop of Pipeline.process walking self.steps from the last step to the first
StepAt_reversed(pipeline_steps, i) == pipeline_steps[Len(pipeline_steps) + 1 - i]

\* for step in self.steps: the step of the iteration at position i
StepAt(pipeline_steps, i) == pipeline_steps[i]

Called(step, before, after) ==
  Append(applied, [name |-> step.name, before |-> before, after |-> after])

\* VoiceCommandStep.process
VoiceCommandProcess ==
  /\ pc = "running" /\ idx <= Len(steps)
  /\ StepAt(steps, idx).name = "Voice Commands"
  /\ ctx' = [ctx EXCEPT !.text = apply_voice_commands(ctx.text, StepAt(steps, idx).custom_commands)]
  /\ applied' = Called(StepAt(steps, idx), ctx.text, ctx'.text)
  /\ idx' = idx + 1
  /\ UNCHANGED <<config, overrides, window_class, transcript, steps, pc, requests, raised,
                 detector, fed, others>>

\* AutoCapitalizeStep.process
AutoCapitalizeProcess ==
  /\ pc = "running" /\ idx <= Len(steps)
  /\ StepAt(steps, idx).name = "Auto Capitalize"
  /\ ctx' = [ctx EXCEPT !.text = AutoCapitalize(ctx.text)]
  /\ applied' = Called(StepAt(steps, idx), ctx.text, ctx'.text)
  /\ idx' = idx + 1
  /\ UNCHANGED <<config, overrides, window_class, transcript, steps, pc, requests, raised,
                 detector, fed, others>>

\* CustomReplacementStep.process
CustomReplacementProcess ==
  /\ pc = "running" /\ idx <= Len(steps)
  /\ StepAt(steps, idx).name = "Custom Replacements"
  /\ ctx' = [ctx EXCEPT !.text = CustomReplacement(ctx.text, StepAt(steps, idx).replacements, 1)]
  /\ applied' = Called(StepAt(steps, idx), ctx.text, ctx'.text)
  /\ idx' = idx + 1
  /\ UNCHANGED <<config, overrides, window_class, transcript, steps, pc, requests, raised,
                 detector, fed, others>>

\* LLMCleanupStep.process, the endpoint answering reply; an exception the step
\* does not catch leaves Pipeline.process
LLMCleanupProcess(reply) ==
  /\ pc = "running" /\ idx <= Len(steps)
  /\ StepAt(steps, idx).name = "LLM Cleanup"
  /\ LET r == LLMCleanup(StepAt(steps, idx), ctx.text, reply)
     IN  /\ ctx' = [ctx EXCEPT !.text = r.text]
         /\ requests' = requests \o r.sent
         /\ applied' = Append(applied,
                         [name |-> StepAt(steps, idx).name, before |-> ctx.text,
                          after |-> r.text, model |-> StepAt(steps, idx).model,
                          reply |-> IF r.sent = <<>> THEN NoReply ELSE reply,
                          sent |-> Len(r.sent)])
         /\ raised' = r.raises
         /\ pc' = IF r.raises # "" THEN "raised" ELSE pc
         /\ idx' = IF r.raises # "" THEN idx ELSE idx + 1
  /\ UNCHANGED <<config, overrides, window_class, transcript, steps, detector, fed, others>>

\* Pipeline.process returns ctx after the last step
ProcessReturn ==
  /\ pc = "running" /\ idx > Len(steps)
  /\ pc' = "done"
  /\ UNCHANGED <<config, overrides, window_class, transcript, steps, ctx, idx, requests, applied,
                 raised, detector, fed, others>>

Next ==
  \/ BuildPipeline
  \/ NewContext
  \/ VoiceCommandProcess
  \/ AutoCapitalizeProcess
  \/ CustomReplacementProcess
  \/ \E reply \in Replies : LLMCleanupProcess(reply)
  \/ ProcessReturn

Spec == Init /\ [][Next]_vars

(***************************************************************************)
(* build_pipeline over every configuration and override map                *)
(***************************************************************************)
C_rocket == [from |-> <<"R","o","c","k","e","t">>, to |-> <<"^">>]

BuildConfigs ==
  {MakeConfig(pv, ve, custom, ac, rules, le, model, FALSE, <<>>) :
     pv \in BOOLEAN, ve \in BOOLEAN, custom \in {<<>>, <<C_rocket>>},
     ac \in BOOLEAN, rules \in {<<>>, <<R_cat>>}, le \in BOOLEAN, model \in Models}

\* a dict holding each key whose argument is a one-element sequence
MakeOverrides(v, a, t) ==
  [k \in (IF v # <<>> THEN {"voice_commands"} ELSE {})
           \cup (IF a # <<>> THEN {"auto_capitalize"} ELSE {})
           \cup (IF t # <<>> THEN {"typing_method"} ELSE {}) |->
     IF k = "voice_commands" THEN v[1]
     ELSE IF k = "auto_capitalize" THEN a[1]
     ELSE t[1]]

OverrideMaps ==
  {MakeOverrides(v, a, t) :
     v \in {<<>>, <<TRUE>>, <<FALSE>>}, a \in {<<>>, <<TRUE>>, <<FALSE>>},
     t \in {<<>>, <<"clipboard">>}}

InitBuild ==
  /\ InitCommon
  /\ pc = "start"
  /\ config \in BuildConfigs
  /\ overrides \in OverrideMaps
  /\ transcript = T_hello_period_world

NextBuild == BuildPipeline

SpecBuild == InitBuild /\ [][NextBuild]_vars

(***************************************************************************)
(* CustomReplacementStep over every rule list                              *)
(***************************************************************************)
InitRules ==
  /\ InitCommon
  /\ pc = "start"
  /\ config \in {MakeConfig(FALSE, TRUE, <<>>, FALSE, rules, FALSE, <<>>, FALSE, <<>>) :
                   rules \in SeqsUpTo(Rules, MaxRules)}
  /\ overrides = EmptyMap
  /\ transcript \in Texts

NextRules ==
  \/ BuildPipeline
  \/ NewContext
  \/ CustomReplacementProcess
  \/ ProcessReturn

SpecRules == InitRules /\ [][NextRules]_vars

(***************************************************************************)
(* The silence detector fed chunk after chunk                              *)
(***************************************************************************)
\* the most calls made on one detector
MaxFeeds == 3

\* the longest chunk, in bytes
MaxChunkBytes == 4

\* the bytes chunks are made of: the samples 771, 1023, -253 and -1
ByteValues == {3, 255}

Chunks == SeqsUpTo(ByteValues, MaxChunkBytes)

\* silence_threshold: 300/32768 and 983/32768
Thresholds == {[num |-> 300], [num |-> 983]}

\* silence_duration: 0, 3/32000 and 6/32000 seconds, that is 0, 1.5 and 3 samples
Durations == {[num |-> k, den |-> 32000] : k \in {0, 3, 6}}

InitSilence ==
  /\ NoPipeline
  /\ Idle
  /\ pc = "listening"
  /\ config = DefaultConfig
  /\ overrides = EmptyMap
  /\ transcript = <<>>
  /\ detector \in {SilenceDetector(t, d, SampleRate) : t \in Thresholds, d \in Durations}
  /\ fed = <<>>

\* detector.feed(samples)
Feed(samples) ==
  /\ Len(fed) < MaxFeeds
  /\ LET r == feed(detector, samples)
     IN  /\ detector' = r.detector
         /\ fed' = Append(fed,
                     [op |-> "feed", n |-> Len(samples) \div 2,
                      below |-> Len(samples) >= 2
                                  /\ BelowThreshold(samples, detector.threshold),
                      ret |-> r.ret, counter |-> r.detector.silent_samples])
  /\ UNCHANGED <<config, overrides, window_class, transcript, steps, ctx, pc, idx,
                 requests, applied, raised, others>>

\* detector.reset()
Reset ==
  /\ Len(fed) < MaxFeeds
  /\ detector' = reset(detector)
  /\ fed' = Append(fed, [op |-> "reset", n |-> 0, below |-> FALSE, ret |-> FALSE,
                         counter |-> detector'.silent_samples])
  /\ UNCHANGED <<config, overrides, window_class, transcript, steps, ctx, pc, idx,
                 requests, applied, raised, others>>

NextSilence ==
  \/ \E samples \in Chunks : Feed(samples)
  \/ Reset

SpecSilence == InitSilence /\ [][NextSilence]_vars

(***************************************************************************)
(* The profile matcher over rule lists and window classes                  *)
(***************************************************************************)
\* the longest profiles.rules list
MaxProfileRules == 2

P_term == [window_class |-> <<"t","e","r","m">>,
           typing_method |-> <<"clipboard">>, auto_capitalize |-> <<>>]

\* a rule for editors and browsers: it matches "VSCode" and "firefox"
P_code == [window_class |-> <<"c","o","d","e","|","f","o","x">>,
           typing_method |-> <<>>, auto_capitalize |-> <<FALSE>>]

\* a rule that matches "firefox" and overrides nothing
P_fire == [window_class |-> <<"f","i","r","e">>,
           typing_method |-> <<>>, auto_capitalize |-> <<>>]

\* a rule whose pattern re.compile rejects
P_bad == [window_class |-> <<"(">>,
          typing_method |-> <<"xdotool">>, auto_capitalize |-> <<TRUE>>]

\* ProfileRule(typing_method="ydotool"): a rule given no window_class
P_empty == [window_class |-> <<>>,
            typing_method |-> <<"ydotool">>, auto_capitalize |-> <<>>]

ProfileRules == {P_term, P_code, P_fire, P_bad, P_empty}

W_xterm == <<"x","t","e","r","m">>

W_firefox == <<"f","i","r","e","f","o","x">>

W_VSCode == <<"V","S","C","o","d","e">>

\* what get_focused_window_class may return
Windows == {<<>>, W_xterm, W_firefox, W_VSCode}

InitProfiles ==
  /\ NoPipeline
  /\ NoFeeds
  /\ Idle
  /\ pc = "start"
  /\ config \in {MakeConfig(TRUE, TRUE, <<>>, TRUE, <<>>, FALSE, <<>>, pe, prules) :
                   pe \in BOOLEAN, prules \in SeqsUpTo(ProfileRules, MaxProfileRules)}
  /\ overrides = EmptyMap
  /\ transcript = T_hello_period_world

\* window_class = get_focused_window_class()
\* overrides = get_profile_overrides(config, window_class)
MatchProfile(observed) ==
  /\ pc = "start"
  /\ window_class' = observed
  /\ overrides' = get_profile_overrides(config, observed)
  /\ pc' = "matched"
  /\ UNCHANGED <<config, transcript, steps, ctx, idx, requests, applied, raised,
                 detector, fed, others>>

NextProfiles == \E observed \in Windows : MatchProfile(observed)

SpecProfiles == InitProfiles /\ [][NextProfiles]_vars

(***************************************************************************)
(* Properties                                                              *)
(***************************************************************************)
StepRank(name) ==
  CASE name = "Voice Commands" -> 1
    [] name = "Auto Capitalize" -> 2
    [] name = "Custom Replacements" -> 3
    [] name = "LLM Cleanup" -> 4
    [] OTHER -> 0

\* C1: the step list build_pipeline produces is a subsequence of [Voice Commands,
\* Auto Capitalize, Custom Replacements, LLM Cleanup]: every step is one of the
\* four kinds and the kinds' ranks increase strictly along the list, so the
\* relative order is kept and no kind appears twice.
C1_StepOrder ==
  /\ \A i \in DOMAIN steps : StepRank(steps[i].name) \in 1..4
  /\ \A i, j \in DOMAIN steps : i < j => StepRank(steps[i].name) < StepRank(steps[j].name)

\* a pipeline built with all four steps
C1_Witness == pc = "built" /\ Len(steps) = 4

\* C2: Pipeline.process calls the configured steps in list order, each exactly
\* once and each on the text the previous one left; when it is over every step
\* has been called; and with Voice Commands then Auto Capitalize, the text
\* "hello period world" leaves Auto Capitalize as "Hello. World".
C2_StepsInOrder ==
  /\ Len(applied) <= Len(steps)
  /\ \A i \in DOMAIN applied :
       /\ applied[i].name = steps[i].name
       /\ applied[i].before = IF i = 1 THEN transcript ELSE applied[i - 1].after
  /\ pc \in {"running", "done", "raised"} =>
       ctx.text = IF applied = <<>> THEN transcript ELSE applied[Len(applied)].after
  /\ pc \in {"done", "raised"} => Len(applied) = Len(steps)
  /\ ( /\ Len(applied) >= 2
       /\ applied[1].name = "Voice Commands"
       /\ applied[2].name = "Auto Capitalize"
       /\ transcript = T_hello_period_world )
     => applied[2].after = T_Hello_World

\* all four steps have run on "hello period world"
C2_Witness ==
  /\ pc = "done"
  /\ Len(applied) = 4
  /\ transcript = T_hello_period_world
  /\ applied[2].after = T_Hello_World

\* C3: no step raises: every step's process returns, whatever its rules and
\* whatever the endpoint answers, so Pipeline.process is never left by an
\* exception.
C3_NoStepRaises == raised = "" /\ pc # "raised"

\* the text of the "response" field of a reply that is a JSON object holding a
\* string there; the empty text for every other reply
C4_Result(reply) ==
  IF /\ reply.kind = "body"
     /\ reply.utf8
     /\ reply.json
     /\ reply.value.type = "object"
     /\ "response" \in DOMAIN reply.value.fields
     /\ reply.value.fields["response"].type = "string"
  THEN Strip(reply.value.fields["response"].s)
  ELSE <<>>

\* C4: a call of the LLM step with no model sends no request and leaves the
\* text; a call with a model sends exactly one request, and the text becomes the
\* trimmed response when the request succeeded with a non-empty trimmed
\* response and is the text before the step in every other outcome.
C4_LLMResult ==
  /\ \A i \in DOMAIN applied :
       applied[i].name = "LLM Cleanup" =>
         IF applied[i].model = <<>>
         THEN applied[i].sent = 0 /\ applied[i].after = applied[i].before
         ELSE /\ applied[i].sent = 1
              /\ applied[i].after =
                   IF C4_Result(applied[i].reply) # <<>>
                   THEN C4_Result(applied[i].reply)
                   ELSE applied[i].before
  /\ Len(requests) =
       Cardinality({i \in DOMAIN applied :
                      applied[i].name = "LLM Cleanup" /\ applied[i].model # <<>>})

\* the LLM step replaced the text by the trimmed response " ok "
C4_Witness ==
  \E i \in DOMAIN applied :
    /\ applied[i].name = "LLM Cleanup"
    /\ applied[i].after = <<"o","k">>
    /\ applied[i].before # <<"o","k">>
    /\ Len(requests) = 1

RECURSIVE C5_Expected(_, _, _, _)
\* the rules applied in order from rule i on, each to the result of the one
\* before; a rule re.compile rejects changes nothing, and with skip_empty a rule
\* with an empty pattern changes nothing either
C5_Expected(text, rules, i, skip_empty) ==
  IF i > Len(rules) THEN text
  ELSE LET rule == rules[i]
           out == IF ReError(rule.pattern) THEN text
                  ELSE IF rule.pattern = <<>> /\ skip_empty THEN text
                  ELSE ReSub(rule.pattern, rule.replacement, text)
       IN  C5_Expected(out, rules, i + 1, skip_empty)

\* C5 as stated: the Custom-Replacement step applies every rule whose pattern is
\* a valid regular expression, in order, and a rule with an invalid pattern
\* changes nothing.
C5_EveryValidRuleApplied ==
  \A i \in DOMAIN applied :
    applied[i].name = "Custom Replacements" =>
      applied[i].after = C5_Expected(applied[i].before, steps[i].replacements, 1, FALSE)

\* C5, amended: the Custom-Replacement step applies, in order, every rule whose
\* pattern is non-empty and a valid regular expression, each to the result of the
\* one before; a rule whose pattern is invalid or empty changes nothing.
C5_NonEmptyValidRulesApplied ==
  \A i \in DOMAIN applied :
    applied[i].name = "Custom Replacements" =>
      applied[i].after = C5_Expected(applied[i].before, steps[i].replacements, 1, TRUE)

\* an invalid rule between two valid ones: cat -> dog, "(", dog -> cat
C5_Witness ==
  \E i \in DOMAIN applied :
    /\ applied[i].name = "Custom Replacements"
    /\ steps[i].replacements = <<R_cat, R_bad, R_dog>>
    /\ applied[i].before = T_cat_dog
    /\ applied[i].after = <<"a"," ","c","a","t","."," ","a"," ","c","a","t">>

\* C6: from its construction on, and through every step, the context's
\* original_text is the text it was constructed with.
C6_OriginalTextKept ==
  pc \in {"running", "done", "raised"} => ctx.original_text = transcript

\* the steps have changed the text and original_text still holds the first one
C6_Witness ==
  /\ pc = "done"
  /\ Len(applied) >= 2
  /\ ctx.text # transcript
  /\ ctx.original_text = transcript

\* the counter before call i on the detector
CounterBefore(i) == IF i = 1 THEN 0 ELSE fed[i - 1].counter

\* C7: the counter changes only so: a feed of a chunk of at least one sample
\* adds the chunk's sample count when the chunk is below the threshold and sets
\* the counter to zero otherwise; reset() sets it to zero; any other call leaves
\* it; and such a feed returns true exactly when the counter it leaves is at least
\* required_samples.
C7_CounterRules ==
  /\ detector.silent_samples = IF fed = <<>> THEN 0 ELSE fed[Len(fed)].counter
  /\ \A i \in DOMAIN fed :
       /\ fed[i].op = "reset" => fed[i].counter = 0
       /\ (fed[i].op = "feed" /\ fed[i].n = 0) => fed[i].counter = CounterBefore(i)
       /\ (fed[i].op = "feed" /\ fed[i].n >= 1) =>
            /\ fed[i].counter = IF fed[i].below THEN CounterBefore(i) + fed[i].n ELSE 0
            /\ fed[i].ret = (fed[i].counter >= detector.required_samples)

\* one loud chunk discards a count that had reached required_samples
C7_Witness ==
  \E i \in DOMAIN fed :
    /\ i > 1
    /\ fed[i].op = "feed" /\ fed[i].n >= 1 /\ ~fed[i].below
    /\ fed[i - 1].counter >= 2
    /\ fed[i - 1].ret
    /\ fed[i].counter = 0
    /\ ~fed[i].ret

\* whether call i ends a run of silence: a reset or a chunk at or above the
\* threshold
Restarts(i) == fed[i].op = "reset" \/ (fed[i].op = "feed" /\ fed[i].n >= 1 /\ ~fed[i].below)

\* the last call before call i that ended a run of silence, 0 if none did
RunStart(i) ==
  IF \E j \in 1..(i - 1) : Restarts(j)
  THEN CHOOSE j \in 1..(i - 1) : Restarts(j) /\ \A k \in (j + 1)..(i - 1) : ~Restarts(k)
  ELSE 0

RECURSIVE SamplesFed(_, _)
\* the samples of the chunks fed by the calls a..b
SamplesFed(a, b) == IF a > b THEN 0 ELSE fed[a].n + SamplesFed(a + 1, b)

\* the samples of the below-threshold chunks fed since the count last restarted,
\* up to and including call i
Cumulative(i) == SamplesFed(RunStart(i) + 1, i)

C9_ShortChunkNoOp ==
  \A i \in DOMAIN fed :
    (fed[i].op = "feed" /\ fed[i].n = 0) =>
      /\ ~fed[i].ret
      /\ fed[i].counter = CounterBefore(i)
      /\ (i = Len(fed) => detector.silent_samples = CounterBefore(i))

\* a short chunk fed to a detector whose count had reached required_samples
C9_Witness ==
  \E i \in DOMAIN fed :
    /\ i > 1
    /\ fed[i].op = "feed" /\ fed[i].n = 0
    /\ detector.required_samples > 0
    /\ fed[i - 1].ret
    /\ fed[i - 1].counter >= detector.required_samples
    /\ ~fed[i].ret

\* the rules get_profile_overrides may stop at: those whose pattern is a valid
\* regular expression that matches the window class anywhere, ignoring case (the
\* empty pattern matches every string); with non_empty only those whose pattern
\* is not empty
C10_Matching(rules, observed, non_empty) ==
  {i \in DOMAIN rules :
     /\ ~ReError(rules[i].window_class)
     /\ ReSearchIgnoreCase(rules[i].window_class, observed)
     /\ non_empty => rules[i].window_class # <<>>}

\* the override fields of the first of those rules that are not null; the empty
\* map when there is none, the window class is empty or profiles are disabled
C10_Expected(non_empty) ==
  LET rules == config.profiles.rules
      matching == C10_Matching(rules, window_class, non_empty)
      first == rules[Min(matching)]
  IN  IF ~config.profiles.enabled \/ window_class = <<>> \/ matching = {}
      THEN EmptyMap
      ELSE [k \in {f \in {"typing_method", "auto_capitalize"} : first[f] # <<>>} |->
              first[k][1]]

\* C10 as stated: get_profile_overrides returns the non-null fields of the first
\* rule whose pattern is a valid regular expression matching the window class.
C10_FirstValidMatch ==
  pc = "matched" => overrides = C10_Expected(FALSE)

\* C10, amended: get_profile_overrides returns the non-null fields of the first
\* rule whose pattern is non-empty, a valid regular expression and matches the
\* window class as a case-insensitive search; later rules are ignored even when
\* that rule has no fields; invalid patterns are passed over; the result is empty
\* when no rule matches, the window class is empty or profiles are disabled; and
\* the rule "term" -> clipboard gives that for "xterm" and nothing for "firefox".
C10_FirstNonEmptyValidMatch ==
  /\ pc = "matched" => overrides = C10_Expected(TRUE)
  /\ (pc = "matched" /\ config.profiles.enabled /\ config.profiles.rules = <<P_term>>) =>
       /\ window_class = W_xterm => overrides = [typing_method |-> "clipboard"]
       /\ window_class = W_firefox => overrides = EmptyMap

\* "firefox" stops at a rule without fields although a later rule matches too
C10_Witness ==
  /\ pc = "matched"
  /\ config.profiles.enabled
  /\ config.profiles.rules = <<P_fire, P_code>>
  /\ window_class = W_firefox
  /\ overrides = EmptyMap

(***************************************************************************)
(* VoiceCommandStep over transcriptions holding action phrases             *)
(***************************************************************************)
\* the most segments a transcription is joined from
MaxSegments == 3

\* segment.text of the segments model.transcribe yields
Segments ==
  {<<"o","k">>, <<"n","o",".">>, <<"h","i","\n">>,
   <<"d","e","l","e","t","e"," ","t","h","a","t">>,
   <<"U","N","D","O"," ","t","h","a","t">>,
   <<"p","e","r","i","o","d">>}

RECURSIVE JoinParts(_)
\* " ".join(text_parts)
JoinParts(text_parts) ==
  IF text_parts = <<>> THEN <<>>
  ELSE IF Len(text_parts) = 1 THEN text_parts[1]
  ELSE text_parts[1] \o <<" ">> \o JoinParts(Tail(text_parts))

\* transcribe_audio: " ".join(text_parts).strip(), for the recordings that give
\* a text
VoiceTexts ==
  {Strip(JoinParts(text_parts)) : text_parts \in SeqsUpTo(Segments, MaxSegments)} \ {<<>>}

InitVoice ==
  /\ InitCommon
  /\ pc = "start"
  /\ config = MakeConfig(TRUE, TRUE, <<>>, FALSE, <<>>, FALSE, <<>>, FALSE, <<>>)
  /\ overrides = EmptyMap
  /\ transcript \in VoiceTexts

NextVoice ==
  \/ BuildPipeline
  \/ NewContext
  \/ VoiceCommandProcess
  \/ ProcessReturn

SpecVoice == InitVoice /\ [][NextVoice]_vars

\* the 0-based starts of the action phrases in text, whatever their case
C11_Starts(text) ==
  {p \in 0..Len(text) : \E i \in DOMAIN ACTION_COMMANDS : MatchesAt(text, p, ACTION_COMMANDS[i])}

\* text without its first action phrase and without the clause before it: what
\* is kept is the text up to and including the last of . ! ? and newline
\* before the phrase, and the text after the phrase
C11_RemoveOnce(text) ==
  LET s == Min(C11_Starts(text))
      i == CHOOSE j \in DOMAIN ACTION_COMMANDS : MatchesAt(text, s, ACTION_COMMANDS[j])
      e == s + Len(ACTION_COMMANDS[i])
      terminals == {b \in 1..s : text[b] \in {".", "!", "?", "\n"}}
      kept == IF terminals = {} THEN <<>> ELSE SubSeq(text, 1, Max(terminals))
  IN  kept \o <<" ">> \o SubSeq(text, e + 1, Len(text))

RECURSIVE C11_RemoveAll(_)
\* every action phrase of text handled so, one occurrence after the other
C11_RemoveAll(text) ==
  IF C11_Starts(text) = {} THEN text ELSE C11_RemoveAll(C11_RemoveOnce(text))

\* s without its spaces and tabs
Squeeze(s) == SelectSeq(s, LAMBDA c : c \notin {" ", "\t"})

\* C11: for each occurrence of an action phrase the engine removes the phrase
\* and the clause before it, keeping the text up to and including the previous
\* . ! ? or newline and the text after the phrase (spacing aside); "this is
\* wrong delete that fixed period" gives "fixed.".
C11_ClauseDeleted ==
  /\ (pc = "done" /\ C11_Starts(transcript) # {}) =>
       Squeeze(ctx.text) = Squeeze(apply_voice_commands(C11_RemoveAll(transcript), <<>>))
  /\ apply_voice_commands(
       <<"t","h","i","s"," ","i","s"," ","w","r","o","n","g"," ","d","e","l","e","t","e",
         " ","t","h","a","t"," ","f","i","x","e","d"," ","p","e","r","i","o","d">>, <<>>)
       = <<"f","i","x","e","d",".">>

\* the same for the transcriptions in which no newline stands before a phrase
C11_ClauseDeletedAfterText ==
  (pc = "done" /\ C11_Starts(transcript) # {}
     /\ \A b \in DOMAIN transcript : transcript[b] # "\n") =>
    Squeeze(ctx.text) = Squeeze(apply_voice_commands(C11_RemoveAll(transcript), <<>>))

(***************************************************************************)
(* VoiceCommandStep over custom vocabularies                               *)
(***************************************************************************)
\* the longest voice_commands.custom list
MaxVocabulary == 2

\* {from: "rocket emoji", to: U+1F680} ("u1F680" stands for that one character)
V_rocket == [from |-> <<"r","o","c","k","e","t"," ","e","m","o","j","i">>,
             to |-> <<"u1F680">>]

\* a phrase that is a builtin key once lowercased
V_period == [from |-> <<"P","e","r","i","o","d">>, to |-> <<"!">>]

\* a phrase that is no builtin, replaced by a punctuation character
V_pause == [from |-> <<"p","a","u","s","e">>, to |-> <<",">>]

Vocabulary == {V_rocket, V_period, V_pause}

\* the words and phrases of the transcriptions, joined by single spaces
VocabularyParts ==
  {<< <<"g","o","i","n","g">>, <<"t","o">>, <<"s","p","a","c","e">>,
      <<"r","o","c","k","e","t"," ","e","m","o","j","i">>, <<"n","o","w">> >>,
   << <<"h","e","l","l","o">>, <<"P","E","R","I","O","D">>, <<"w","o","r","l","d">> >>,
   << <<"w","a","i","t">>, <<"p","a","u","s","e">>, <<"g","o">> >>,
   << <<"R","o","c","k","e","t"," ","E","m","o","j","i">>, <<"p","e","r","i","o","d">> >>,
   << <<"p","a","u","s","e","s">>, <<"R","O","C","K","E","T"," ","e","m","o","j","i">>,
      <<"c","o","m","m","a">>, <<"o","k">> >>,
   << <<"r","o","c","k","e","t"," ","e","m","o","j","i","s">>, <<"P","a","u","s","e">> >>}

InitVocabulary ==
  /\ InitCommon
  /\ pc = "start"
  /\ config \in {MakeConfig(TRUE, TRUE, custom, FALSE, <<>>, FALSE, <<>>, FALSE, <<>>) :
                   custom \in SeqsUpTo(Vocabulary, MaxVocabulary)}
  /\ overrides = EmptyMap
  /\ transcript \in {JoinParts(parts) : parts \in VocabularyParts}

SpecVocabulary == InitVocabulary /\ [][NextVoice]_vars

\* what is emitted for a word or phrase: the replacement of the last custom
\* entry whose lowercased phrase equals the lowercased part, else that of the
\* builtin of that key, else the part
C12_Emitted(part, custom) ==
  LET users == {i \in DOMAIN custom : Lower(custom[i].from) = Lower(part)}
      builtins == {i \in DOMAIN BUILTIN_COMMANDS : BUILTIN_COMMANDS[i].key = Lower(part)}
  IN  IF users # {} THEN custom[Max(users)].to
      ELSE IF builtins # {} THEN BUILTIN_COMMANDS[Min(builtins)].val
      ELSE part

\* whether a part is a custom phrase that is no builtin
C12_CustomOnly(part, custom) ==
  /\ \E i \in DOMAIN custom : Lower(custom[i].from) = Lower(part)
  /\ \A i \in DOMAIN BUILTIN_COMMANDS : BUILTIN_COMMANDS[i].key # Lower(part)

RECURSIVE C12_Expected(_, _, _, _)
\* the text expected for parts: each part's emission follows out; a punctuation
\* character attaches to the text before it, anything else is set off by single
\* spaces. With always_spaced a custom phrase that is no builtin is set off by
\* single spaces whatever its replacement.
C12_Expected(parts, custom, out, always_spaced) ==
  IF parts = <<>> THEN Strip(out)
  ELSE LET r == C12_Emitted(Head(parts), custom)
           attaches == /\ Len(r) = 1 /\ r[1] \in {".", ",", "?", "!", ":", ";"}
                       /\ ~(always_spaced /\ C12_CustomOnly(Head(parts), custom))
       IN  C12_Expected(Tail(parts), custom,
                        IF attaches THEN RStrip(out) \o r \o <<" ">> ELSE out \o r \o <<" ">>,
                        always_spaced)

\* C12 as stated: the user's replacement is emitted for a phrase that equals a
\* builtin key once lowercased, custom phrases are matched whatever their
\* case and only as whole phrases, and every custom phrase that is no builtin
\* is substituted with single spaces around it.
C12_CustomAlwaysSpaced ==
  \A parts \in VocabularyParts :
    (pc = "done" /\ transcript = JoinParts(parts)) =>
      ctx.text = C12_Expected(parts, config.voice_commands.custom, <<>>, TRUE)

\* C12, amended: the same, a custom phrase that is no builtin being substituted
\* with single spaces around it unless its replacement is one of . , ? ! : ;
\* which attaches to the text before it as a builtin punctuation does; "going
\* to space rocket emoji now" becomes "going to space U+1F680 now".
C12_CustomSpacedByReplacement ==
  \A parts \in VocabularyParts :
    (pc = "done" /\ transcript = JoinParts(parts)) =>
      ctx.text = C12_Expected(parts, config.voice_commands.custom, <<>>, FALSE)

\* the rocket phrase replaced between two words, and a builtin overridden
C12_Witness ==
  /\ pc = "done"
  /\ config.voice_commands.custom = <<V_rocket, V_period>>
  /\ transcript \in {JoinParts(parts) : parts \in VocabularyParts}
  /\ transcript[1] = "g"
  /\ ctx.text = <<"g","o","i","n","g"," ","t","o"," ","s","p","a","c","e"," ","u1F680",
                  " ","n","o","w">>

(***************************************************************************)
(* AutoCapitalizeStep applied twice                                        *)
(***************************************************************************)
\* the longest text the step is applied to
MaxTextLen == 4

\* the characters of those texts
CapChars == {"a", "B", ".", " ", "\n"}

\* Pipeline([AutoCapitalizeStep(), AutoCapitalizeStep()]).process(PipelineContext(text))
\* is entered
InitCapitalize ==
  /\ NoFeeds
  /\ Idle
  /\ window_class = <<>>
  /\ requests = <<>>
  /\ applied = <<>>
  /\ raised = ""
  /\ config = DefaultConfig
  /\ overrides = EmptyMap
  /\ transcript \in SeqsUpTo(CapChars, MaxTextLen)
  /\ steps = <<AutoCapitalizeStep, AutoCapitalizeStep>>
  /\ ctx = PipelineContext(transcript)
  /\ idx = 1
  /\ pc = "running"

NextCapitalize ==
  \/ AutoCapitalizeProcess
  \/ ProcessReturn

SpecCapitalize == InitCapitalize /\ [][NextCapitalize]_vars

\* C13: Auto-Capitalize applied twice leaves exactly the text it leaves when
\* applied once.
C13_Idempotent ==
  pc = "done" =>
    /\ Len(applied) = 2
    /\ applied[1].before = transcript
    /\ applied[2].before = applied[1].after
    /\ applied[2].after = applied[1].after
    /\ ctx.text = applied[1].after

\* two letters after newlines, both capitalized by the first application
C13_Witness ==
  /\ pc = "done"
  /\ transcript = <<"\n", "a", "\n", "a">>
  /\ applied[1].after = <<"\n", "A", "\n", "A">>
  /\ ctx.text = <<"\n", "A", "\n", "A">>

\* whether the built pipeline holds the step of that name
Includes(name) == \E i \in DOMAIN steps : steps[i].name = name

\* C14: the Voice-Command step is in a built pipeline only if the global
\* pipeline flag and the voice-commands feature flag are both on; no
\* per-application override turns it on when that conjunction is false.
C14_VoiceOnlyIfBothFlags ==
  (pc = "built" /\ Includes("Voice Commands")) =>
    (config.pipeline.voice_commands /\ config.voice_commands.enabled)

\* C15: in a built pipeline Auto-Capitalize is included iff the auto_capitalize
\* override is true when there is one and otherwise iff the global flag is true;
\* Custom-Replacement iff the rule list is non-empty; LLM-Cleanup iff llm.enabled;
\* whatever the overrides are.
C15_OtherStepsIncluded ==
  pc = "built" =>
    /\ Includes("Auto Capitalize") =
         IF "auto_capitalize" \in DOMAIN overrides THEN overrides["auto_capitalize"]
         ELSE config.pipeline.auto_capitalize
    /\ Includes("Custom Replacements") = (config.pipeline.custom_replacements # <<>>)
    /\ Includes("LLM Cleanup") = config.pipeline.llm.enabled

\* an override switches Auto-Capitalize off while the other two steps are built
C15_Witness ==
  /\ pc = "built"
  /\ config.pipeline.auto_capitalize
  /\ "auto_capitalize" \in DOMAIN overrides /\ ~overrides["auto_capitalize"]
  /\ "typing_method" \in DOMAIN overrides
  /\ ~Includes("Auto Capitalize")
  /\ Includes("Custom Replacements")
  /\ Includes("LLM Cleanup")

(***************************************************************************)
(* Pipeline invocations interleaved in one process                         *)
(***************************************************************************)
\* the most invocations running side by side
MaxInvocations == 2

\* a session whose vocabulary replaces the builtin "period"
Cfg_period == MakeConfig(TRUE, TRUE, <<V_period>>, TRUE, <<>>, FALSE, <<>>, FALSE, <<>>)

\* a session with a replacement rule
Cfg_cat == MakeConfig(TRUE, TRUE, <<>>, FALSE, <<R_cat>>, FALSE, <<>>, FALSE, <<>>)

\* the configurations of the sessions that invoke a pipeline
InvocationConfigs == {Cfg_period, Cfg_cat, DefaultConfig}

\* the sessions: a configuration and the transcription the pipeline runs on
Sessions ==
  {<<Cfg_period, T_hello_period_world>>, <<DefaultConfig, T_hello_period_world>>,
   <<Cfg_cat, T_cat_dog>>}

\* pipeline = build_pipeline(config, {}); ctx = PipelineContext(text=text);
\* pipeline.process(ctx) is entered
Invocation(cfg, text) ==
  [config |-> cfg, text |-> text, steps |-> build_pipeline(cfg, EmptyMap),
   ctx |-> PipelineContext(text), idx |-> 1, pc |-> "running"]

InitInvocations ==
  /\ NoPipeline
  /\ NoFeeds
  /\ pc = "serving"
  /\ config = DefaultConfig
  /\ overrides = EmptyMap
  /\ transcript = <<>>
  /\ NoCapture
  /\ NoCommand
  /\ NoHistory
  /\ NoConcurrent
  /\ vocabulary = BUILTIN_COMMANDS
  /\ invocations \in UNION {[1..n -> {Invocation(s[1], s[2]) : s \in Sessions}] :
                              n \in 1..MaxInvocations}

\* one step of invocation k: what step.process(ctx) returns, and the module's
\* vocabulary after it
StepProcess(k) ==
  LET inv == invocations[k]
      step == StepAt(inv.steps, inv.idx)
      call == VoiceCommandsCall(vocabulary, inv.ctx.text, step.custom_commands)
  IN  IF step.name = "Voice Commands"
        THEN [text |-> call.text, builtin |-> call.builtin]
      ELSE IF step.name = "Auto Capitalize"
        THEN [text |-> AutoCapitalize(inv.ctx.text), builtin |-> vocabulary]
      ELSE [text |-> CustomReplacement(inv.ctx.text, step.replacements, 1),
            builtin |-> vocabulary]

\* ctx = step.process(ctx) in invocation k
InvocationStep(k) ==
  /\ invocations[k].pc = "running" /\ invocations[k].idx <= Len(invocations[k].steps)
  /\ invocations' = [invocations EXCEPT ![k].ctx.text = StepProcess(k).text,
                                        ![k].idx = @ + 1]
  /\ vocabulary' = StepProcess(k).builtin
  /\ UNCHANGED <<config, overrides, window_class, steps, ctx, transcript, pc, idx, requests,
                 applied, raised, detector, fed, capture, args, cookie, transcribed, history,
                 concurrent>>

\* Pipeline.process of invocation k returns
InvocationReturn(k) ==
  /\ invocations[k].pc = "running" /\ invocations[k].idx > Len(invocations[k].steps)
  /\ invocations' = [invocations EXCEPT ![k].pc = "done"]
  /\ UNCHANGED <<config, overrides, window_class, steps, ctx, transcript, pc, idx, requests,
                 applied, raised, detector, fed, vocabulary, capture, args, cookie,
                 transcribed, history,
                 concurrent>>

NextInvocations ==
  \E k \in DOMAIN invocations :
    \/ InvocationStep(k)
    \/ InvocationReturn(k)

SpecInvocations == InitInvocations /\ [][NextInvocations]_vars

RECURSIVE C16_Alone(_, _, _)
\* the text the steps from position i on give when nothing else runs
C16_Alone(pipeline_steps, i, text) ==
  IF i > Len(pipeline_steps) THEN text
  ELSE C16_Alone(pipeline_steps, i + 1,
         IF pipeline_steps[i].name = "Voice Commands"
           THEN apply_voice_commands(text, pipeline_steps[i].custom_commands)
         ELSE IF pipeline_steps[i].name = "Auto Capitalize" THEN AutoCapitalize(text)
         ELSE CustomReplacement(text, pipeline_steps[i].replacements, 1))

\* C16: however the invocations interleave, each ends with the text it gives
\* when running alone, and processing writes neither the builtin vocabulary, nor
\* a configured custom list, nor a pipeline's step list.
C16_Independent ==
  /\ vocabulary = BUILTIN_COMMANDS
  /\ \A k \in DOMAIN invocations :
       LET inv == invocations[k]
       IN  /\ inv.steps = build_pipeline(inv.config, EmptyMap)
           /\ inv.config \in InvocationConfigs
           /\ inv.ctx.original_text = inv.text
           /\ inv.pc = "done" =>
                inv.ctx.text = C16_Alone(build_pipeline(inv.config, EmptyMap), 1, inv.text)

\* a session with its own "period" has finished beside one that uses the builtin
C16_Witness ==
  /\ Len(invocations) = 2
  /\ invocations[1].pc = "done" /\ invocations[2].pc = "done"
  /\ invocations[1].config.voice_commands.custom = <<V_period>>
  /\ invocations[2].config.voice_commands.custom = <<>>
  /\ invocations[1].text = T_hello_period_world
  /\ invocations[2].text = T_hello_period_world
  /\ invocations[1].ctx.text = <<"H","e","l","l","o","!"," ","W","o","r","l","d">>
  /\ invocations[2].ctx.text = T_Hello_World

(***************************************************************************)
(* continuous.py: the capture loop of _record_and_process_chunk            *)
(***************************************************************************)
\* whether t tenths of a second are at least the duration d plus extra seconds
AtLeast(t, d, extra) == t * d.den >= (d.num + extra * d.den) * 10

\* the tenths of a second time.sleep(d) lasts at least
SleepTicks(d) == (d.num * 10) \div d.den

\* continuous.silence_duration 0.5 s or 1.5 s, max_chunk_duration 2 s or 3 s
CaptureConfigs ==
  {[DefaultConfig EXCEPT !.continuous.silence_duration = sd,
                         !.continuous.max_chunk_duration = md] :
     sd \in {[num |-> 1, den |-> 2], [num |-> 3, den |-> 2]},
     md \in {[num |-> 2, den |-> 1], [num |-> 3, den |-> 1]}}

\* start() has set self.running; _record_and_process_chunk is entered
InitCapture ==
  /\ NoPipeline
  /\ NoFeeds
  /\ NoInvocations
  /\ NoCommand
  /\ NoHistory
  /\ NoConcurrent
  /\ pc = "record"
  /\ config \in CaptureConfigs
  /\ overrides = EmptyMap
  /\ transcript = <<>>
  /\ capture \in {[running |-> TRUE, now |-> 0, heard |-> "nothing", recorder_writes |-> w,
                   cut_at |-> <<>>, handed |-> FALSE] : w \in BOOLEAN}

\* proc = record_audio(...); start_time = time.time(); detector = SilenceDetector(...)
StartRecording ==
  /\ pc = "record"
  /\ detector' = SilenceDetector(config.continuous.silence_threshold,
                                 config.continuous.silence_duration, SampleRate)
  /\ pc' = "loop"
  /\ UNCHANGED <<config, overrides, window_class, steps, ctx, transcript, idx, requests,
                 applied, raised, fed, vocabulary, invocations, capture, args, cookie,
                 transcribed, history,
                 concurrent>>

\* what has been heard once more audio arrived, above the threshold or not
Heard(before, loud) ==
  IF loud /\ before \in {"nothing", "loud"} THEN "loud" ELSE "some quiet"

\* one iteration of "while self.running": the clock is read, then the loop
\* breaks or sleeps; a sleep may last a tenth longer than asked, and the audio
\* that arrives during it is above the threshold or not
LoopIteration(late, loud) ==
  /\ pc = "loop" /\ capture.running
  /\ LET elapsed == capture.now
         sd == config.continuous.silence_duration
         slept(ticks) == [capture EXCEPT !.now = elapsed + ticks + late,
                                         !.heard = Heard(@, loud)]
         broken == [capture EXCEPT !.cut_at = <<elapsed>>]
     IN  IF AtLeast(elapsed, config.continuous.max_chunk_duration, 0)
           THEN capture' = broken /\ pc' = "stop recording"
         ELSE IF AtLeast(elapsed, sd, 0)
           THEN IF capture.recorder_writes
                  THEN IF AtLeast(elapsed, sd, 1)
                         THEN /\ capture' = [slept(SleepTicks(sd)) EXCEPT
                                               !.cut_at = <<elapsed + SleepTicks(sd) + late>>]
                              /\ pc' = "stop recording"
                         ELSE capture' = slept(SleepTicks(sd)) /\ pc' = pc
                ELSE capture' = broken /\ pc' = "stop recording"
         ELSE capture' = slept(1) /\ pc' = pc
  /\ UNCHANGED <<config, overrides, window_class, steps, ctx, transcript, idx, requests,
                 applied, raised, detector, fed, vocabulary, invocations, args, cookie,
                 transcribed, history,
                 concurrent>>

\* _handle_signal: stop() clears self.running
HandleSignal ==
  /\ pc = "loop" /\ capture.running
  /\ capture' = [capture EXCEPT !.running = FALSE]
  /\ UNCHANGED <<config, overrides, window_class, steps, ctx, transcript, pc, idx, requests,
                 applied, raised, detector, fed, vocabulary, invocations, args, cookie,
                 transcribed, history,
                 concurrent>>

\* "while self.running" finds the flag cleared
LoopExit ==
  /\ pc = "loop" /\ ~capture.running
  /\ capture' = [capture EXCEPT !.cut_at = <<capture.now>>]
  /\ pc' = "stop recording"
  /\ UNCHANGED <<config, overrides, window_class, steps, ctx, transcript, idx, requests,
                 applied, raised, detector, fed, vocabulary, invocations, args, cookie,
                 transcribed, history,
                 concurrent>>

\* proc.terminate(); return when the file holds no audio, else transcribe_audio
StopRecording ==
  /\ pc = "stop recording"
  /\ IF capture.recorder_writes /\ capture.cut_at[1] >= 1
       THEN capture' = [capture EXCEPT !.handed = TRUE] /\ pc' = "transcribe"
       ELSE capture' = capture /\ pc' = "returned"
  /\ UNCHANGED <<config, overrides, window_class, steps, ctx, transcript, idx, requests,
                 applied, raised, detector, fed, vocabulary, invocations, args, cookie,
                 transcribed, history,
                 concurrent>>

NextCapture ==
  \/ StartRecording
  \/ \E late \in {0, 1}, loud \in BOOLEAN : LoopIteration(late, loud)
  \/ HandleSignal
  \/ LoopExit
  \/ StopRecording

SpecCapture == InitCapture /\ [][NextCapture]_vars

\* C17: the capture loop feeds the recorded audio to the silence detector, and
\* a chunk is cut and handed to the transcriber when the detector has reported
\* the configured silence or the maximum chunk duration is reached; it is not
\* cut while only above-threshold audio has arrived before the maximum duration.
C17_CutOnSilence ==
  (capture.handed /\ capture.running) =>
    /\ fed # <<>>
    /\ \/ \E i \in DOMAIN fed : fed[i].op = "feed" /\ fed[i].ret
       \/ AtLeast(capture.cut_at[1], config.continuous.max_chunk_duration, 0)
    /\ capture.heard = "loud" =>
         AtLeast(capture.cut_at[1], config.continuous.max_chunk_duration, 0)

(***************************************************************************)
(* dictation.py: the begin, cancel and end commands                        *)
(***************************************************************************)
\* merge_cli_args (an attribute the parser did not define is no key of a; None
\* is <<>>; typing.method is no field of the model's Config)
merge_cli_args(cfg, a) ==
  LET c1 == IF "model" \in DOMAIN a /\ a.model # <<>>
            THEN [cfg EXCEPT !.model.name = a.model[1]] ELSE cfg
      c2 == IF "device" \in DOMAIN a /\ a.device # <<>>
            THEN [c1 EXCEPT !.model.device = a.device[1]] ELSE c1
  IN  IF "no_pipeline" \in DOMAIN a /\ a.no_pipeline
      THEN [c2 EXCEPT !.pipeline.auto_capitalize = FALSE,
                      !.pipeline.voice_commands = FALSE,
                      !.pipeline.llm.enabled = FALSE]
      ELSE c2

\* whisper-dictation begin [--model M]
BeginArgs ==
  {[command |-> "begin", no_pipeline |-> FALSE, model |-> mo] :
     mo \in {<<>>, <<"small.en">>}}

\* whisper-dictation [--no-pipeline] end [--device D]
EndArgs ==
  {[command |-> "end", no_pipeline |-> np, device |-> d] :
     np \in BOOLEAN, d \in {<<>>, <<"cuda">>, <<"cpu">>}}

\* a rule that pastes and switches auto_capitalize on in terminals
P_cap == [window_class |-> <<"t","e","r","m">>,
          typing_method |-> <<"clipboard">>, auto_capitalize |-> <<TRUE>>]

\* what load_config returns for the configuration files of the model
FileConfigs ==
  {[MakeConfig(pv, ve, <<>>, ac, rules, le, <<>>, pe, IF pe THEN <<P_cap>> ELSE <<>>)
      EXCEPT !.model.device = dev] :
     pv \in BOOLEAN, ve \in BOOLEAN, ac \in BOOLEAN, rules \in {<<>>, <<R_cat>>},
     le \in BOOLEAN, pe \in BOOLEAN, dev \in {"auto", ""}}

RECURSIVE StripSplit(_)
\* text.strip().split("\n") for the text whose lines are given, the first of
\* them not blank: the blank lines at the end are gone
StripSplit(lines) ==
  IF Len(lines) > 1 /\ lines[Len(lines)] = "" THEN StripSplit(SubSeq(lines, 1, Len(lines) - 1))
  ELSE lines

\* the shell, no recording running, the configuration file written
InitManual ==
  /\ NoPipeline
  /\ NoFeeds
  /\ Idle
  /\ pc = "shell"
  /\ config \in FileConfigs
  /\ overrides = EmptyMap
  /\ transcript = <<>>

\* main() for begin: config = merge_cli_args(load_config(), args); begin(config)
\* writes the cookie (when the cookie exists begin exits and changes nothing)
Begin(a) ==
  /\ pc = "shell" /\ cookie = <<>>
  /\ args' = a
  /\ LET cfg == merge_cli_args(config, a)
     IN  cookie' = <<"4242", cfg.model.name, cfg.model.device>>
  /\ UNCHANGED <<config, overrides, window_class, steps, ctx, transcript, pc, idx, requests,
                 applied, raised, detector, fed, vocabulary, invocations, capture,
                 transcribed, history,
                 concurrent>>

\* cancel()
Cancel ==
  /\ pc = "shell" /\ cookie # <<>>
  /\ args' = [command |-> "cancel", no_pipeline |-> FALSE]
  /\ cookie' = <<>>
  /\ UNCHANGED <<config, overrides, window_class, steps, ctx, transcript, pc, idx, requests,
                 applied, raised, detector, fed, vocabulary, invocations, capture,
                 transcribed, history,
                 concurrent>>

\* main() for end, up to "if text:": the cookie is read and removed, and unless
\* the recording is too short transcribe_audio(AUDIO_FILE, model_size, device)
\* returns text
End(a, recorded, text) ==
  /\ pc = "shell" /\ cookie # <<>>
  /\ args' = a
  /\ config' = merge_cli_args(config, a)
  /\ LET content == StripSplit(cookie)
         model_size == IF Len(content) > 1 THEN content[2] ELSE config'.model.name
         device == IF Len(content) > 2 THEN content[3] ELSE config'.model.device
     IN  IF recorded
         THEN /\ transcribed' = Append(transcribed,
                                  [model_size |-> model_size, device |-> device,
                                   requested |-> a.device])
              /\ transcript' = text
              /\ pc' = IF text # <<>> THEN "profile" ELSE "exit"
         ELSE /\ text = <<>>
              /\ UNCHANGED <<transcribed, transcript>>
              /\ pc' = "exit"
  /\ cookie' = <<>>
  /\ UNCHANGED <<overrides, window_class, steps, ctx, idx, requests, applied, raised,
                 detector, fed, vocabulary, invocations, capture, history,
                 concurrent>>

\* if config.profiles.enabled: window_class = get_focused_window_class();
\* overrides = get_profile_overrides(config, window_class)
ResolveOverrides(observed) ==
  /\ pc = "profile"
  /\ IF config.profiles.enabled
       THEN /\ window_class' = observed
            /\ overrides' = get_profile_overrides(config, observed)
       ELSE /\ observed = <<>>
            /\ UNCHANGED <<window_class, overrides>>
  /\ pc' = "start"
  /\ UNCHANGED <<config, steps, ctx, transcript, idx, requests, applied, raised, detector,
                 fed, others>>

NextManual ==
  \/ \E a \in BeginArgs : Begin(a)
  \/ Cancel
  \/ \E a \in EndArgs, recorded \in BOOLEAN, text \in {<<>>, T_cat_dog} : End(a, recorded, text)
  \/ \E observed \in {<<>>, W_xterm, W_firefox} : ResolveOverrides(observed)
  \/ BuildPipeline
  \/ NewContext
  \/ VoiceCommandProcess
  \/ AutoCapitalizeProcess
  \/ CustomReplacementProcess
  \/ \E reply \in Replies : LLMCleanupProcess(reply)
  \/ ProcessReturn

SpecManual == InitManual /\ [][NextManual]_vars

\* C18: with --no-pipeline the pipeline built for the session holds no step,
\* whatever the configuration file and the profile override are, and the text
\* typed is the transcribed text.
C18_NoPipelineSkipsAll ==
  (args # <<>> /\ args.command = "end" /\ args.no_pipeline) =>
    /\ pc \in {"built", "running", "done"} => steps = <<>>
    /\ pc = "done" => ctx.text = transcript

\* C19: when end is invoked with --device D, the transcription of that
\* recording runs with device D.
C19_EndDeviceUsed ==
  \A i \in DOMAIN transcribed :
    transcribed[i].requested # <<>> => transcribed[i].device = transcribed[i].requested[1]

(***************************************************************************)
(* history.py: TranscriptionHistory                                        *)
(***************************************************************************)
MaxLines == 2
MaxSaves == 2
MaxLast == 3

\* the lines a history file holds: the JSON of the entry saved as number seq
\* (seq 0: an entry of an earlier run), a blank line, a line that is no JSON,
\* and a JSON line that is no HistoryEntry
EntryLine(seq) == [kind |-> "entry", seq |-> seq]
BlankLine == [kind |-> "blank", seq |-> 0]
BrokenLine == [kind |-> "broken", seq |-> 0]
ForeignLine == [kind |-> "foreign", seq |-> 0]
FoundLines == {EntryLine(0), BlankLine, BrokenLine, ForeignLine}

\* line.strip() is not empty and HistoryEntry(**json.loads(line)) does not raise
Parses(line) == line.kind = "entry"

\* s[start:] of Python
SliceFrom(s, start) ==
  LET n == Len(s)
      from == IF start < 0 THEN (IF n + start < 0 THEN 0 ELSE n + start)
              ELSE IF start > n THEN n ELSE start
  IN  SubSeq(s, from + 1, n)

\* list(reversed(s))
Reversed(s) == [i \in 1..Len(s) |-> s[Len(s) - i + 1]]

\* TranscriptionHistory.get_recent
get_recent(file, n) ==
  LET entries == SelectSeq(file, Parses)
  IN  Reversed(SliceFrom(entries, 0 - n))

\* TranscriptionHistory._prune_if_needed
prune_if_needed(lines, max_entries) ==
  IF Len(lines) <= max_entries THEN lines ELSE SliceFrom(lines, 0 - max_entries)

\* the history files found on disk
FoundFiles == UNION {[1..n -> FoundLines] : n \in 0..MaxLines}

\* a history file found on disk, a history object made from the configuration
InitHistory ==
  /\ NoPipeline
  /\ NoFeeds
  /\ NoInvocations
  /\ NoCapture
  /\ NoCommand
  /\ NoConcurrent
  /\ pc = "shell"
  /\ config = MakeConfig(TRUE, TRUE, <<>>, TRUE, <<>>, FALSE, <<>>, FALSE, <<>>)
  /\ overrides = EmptyMap
  /\ transcript = <<>>
  /\ \E lines \in FoundFiles, max_entries \in {0, 1, 2, DefaultMaxEntries} :
       history = [file |-> lines, max_entries |-> max_entries, saved |-> 0,
                  asked |-> <<>>, recent |-> <<>>]

\* TranscriptionHistory.save: append the line, then prune
Save ==
  /\ pc = "shell"
  /\ history.saved < MaxSaves
  /\ history' = [history EXCEPT
                   !.file = prune_if_needed(Append(@, EntryLine(history.saved + 1)),
                                            history.max_entries),
                   !.saved = @ + 1,
                   !.asked = <<>>,
                   !.recent = <<>>]
  /\ UNCHANGED <<config, overrides, window_class, steps, ctx, transcript, pc, idx, requests,
                 applied, raised, detector, fed, vocabulary, invocations, capture, args,
                 cookie, transcribed, concurrent>>

\* cmd_history without --search: entries = history.get_recent(args.last)
CmdHistory(last) ==
  /\ pc = "shell"
  /\ args' = [command |-> "history", no_pipeline |-> FALSE, last |-> last]
  /\ history' = [history EXCEPT !.asked = <<last>>,
                                !.recent = get_recent(history.file, last)]
  /\ UNCHANGED <<config, overrides, window_class, steps, ctx, transcript, pc, idx, requests,
                 applied, raised, detector, fed, vocabulary, invocations, capture,
                 cookie, transcribed, concurrent>>

NextHistory ==
  \/ Save
  \/ \E last \in 0..MaxLast : CmdHistory(last)

SpecHistory == InitHistory /\ [][NextHistory]_vars

\* the n newest of the entries, newest first
C20_Newest(entries, n) ==
  LET k == IF n < Len(entries) THEN n ELSE Len(entries)
  IN  [i \in 1..k |-> entries[Len(entries) - i + 1]]

\* C20: for every n >= 0 and every history file, get_recent(n) returns at most
\* n entries, the n most recently saved parseable entries, newest first.
C20_AtMostNNewestFirst ==
  history.asked # <<>> =>
    /\ Len(history.recent) <= history.asked[1]
    /\ history.recent = C20_Newest(SelectSeq(history.file, Parses), history.asked[1])

\* the same for n >= 1
C20_NewestFirstForPositiveN ==
  (history.asked # <<>> /\ history.asked[1] >= 1) =>
    /\ Len(history.recent) <= history.asked[1]
    /\ history.recent = C20_Newest(SelectSeq(history.file, Parses), history.asked[1])

\* C21: for every max_entries >= 0, after any sequence of save calls by one
\* session the history file holds at most max_entries lines, the most recently
\* saved entries in save order.
C21_AtMostMaxEntries ==
  history.saved >= 1 =>
    /\ Len(history.file) <= history.max_entries
    /\ \A i \in 1..Len(history.file) :
         i <= history.saved =>
           history.file[Len(history.file) - i + 1] = EntryLine(history.saved - i + 1)

(***************************************************************************)
(* wakeword.py: WakeWordListener                                           *)
(***************************************************************************)
MaxDetections == 6

\* start() up to the loop: the flags set, the model loaded, the stream open
InitWake ==
  /\ NoPipeline
  /\ NoFeeds
  /\ NoInvocations
  /\ NoCapture
  /\ NoCommand
  /\ NoHistory
  /\ begins = [procs |-> <<>>, alive |-> {}]
  /\ savers = <<>>
  /\ action_pass = [text |-> <<>>, phrase |-> 1, at |-> "off"]
  /\ pc = "listen"
  /\ config \in {DefaultConfig}
  /\ overrides = EmptyMap
  /\ transcript = <<>>
  /\ listener = [running |-> TRUE, recording |-> FALSE, rec_proc |-> <<>>,
                 audio_path |-> <<>>, at |-> "listening", alive |-> {}, spawned |-> 0,
                 detections |-> <<>>]

\* what the finally clause of start() leaves when an exception passes through:
\* _cancel_recording if still recording, running = False
Unwound(l) ==
  [l EXCEPT !.recording = FALSE,
            !.rec_proc = IF l.recording THEN <<>> ELSE @,
            !.audio_path = IF l.recording THEN <<>> ELSE @,
            !.alive = IF l.recording /\ l.rec_proc # <<>> THEN @ \ {l.rec_proc[1]} ELSE @,
            !.running = FALSE]

\* a frame scoring above the sensitivity while not recording: _start_recording;
\* record_audio returns the recorder or raises (Popen finds no recorder binary)
WakeStart(starts) ==
  /\ listener.at = "listening" /\ listener.running
  /\ ~listener.recording
  /\ Len(listener.detections) < MaxDetections
  /\ LET path == <<listener.spawned + 1>>
         proc == listener.spawned + 1
         heard == Append(listener.detections,
                         [kind |-> "start", outcome |-> IF starts THEN "recording" ELSE "raises"])
     IN  listener' =
           IF starts
           THEN [listener EXCEPT !.audio_path = path, !.rec_proc = <<proc>>,
                                 !.alive = @ \cup {proc}, !.spawned = proc,
                                 !.recording = TRUE, !.at = "draining",
                                 !.detections = heard]
           ELSE [Unwound([listener EXCEPT !.audio_path = path, !.detections = heard])
                   EXCEPT !.at = "crashed"]
  /\ UNCHANGED <<config, overrides, window_class, steps, ctx, transcript, pc, idx, requests,
                 applied, raised, detector, fed, vocabulary, invocations, capture, args,
                 cookie, transcribed, history, begins, savers,
                 action_pass>>

\* what _stop_and_transcribe comes to: nothing captured, an empty
\* transcription, the text typed, or an exception of transcribe_audio,
\* pipeline.process, type_text or history.save, which no except clause catches
StopOutcomes == {"no_audio", "empty", "typed", "raises"}

\* a frame scoring above the sensitivity while recording: _stop_and_transcribe
WakeStop(outcome) ==
  /\ listener.at = "listening" /\ listener.running
  /\ listener.recording
  /\ Len(listener.detections) < MaxDetections
  /\ LET stopped == [listener EXCEPT
                       !.recording = FALSE,
                       !.alive = IF listener.rec_proc # <<>> THEN @ \ {listener.rec_proc[1]} ELSE @,
                       !.rec_proc = <<>>,
                       !.audio_path = <<>>,
                       !.detections = Append(@, [kind |-> "stop", outcome |-> outcome])]
     IN  listener' =
           IF outcome = "raises"
           THEN [Unwound(stopped) EXCEPT !.at = "crashed"]
           ELSE [stopped EXCEPT !.at = "draining"]
  /\ UNCHANGED <<config, overrides, window_class, steps, ctx, transcript, pc, idx, requests,
                 applied, raised, detector, fed, vocabulary, invocations, capture, args,
                 cookie, transcribed, history, begins, savers,
                 action_pass>>

\* the two seconds of audio read and dropped after a detection
Drain ==
  /\ listener.at = "draining"
  /\ listener' = [listener EXCEPT !.at = "listening"]
  /\ UNCHANGED <<config, overrides, window_class, steps, ctx, transcript, pc, idx, requests,
                 applied, raised, detector, fed, vocabulary, invocations, capture, args,
                 cookie, transcribed, history, begins, savers,
                 action_pass>>

\* SIGINT or SIGTERM: stop()
WakeSignal ==
  /\ listener.at \in {"listening", "draining"} /\ listener.running
  /\ listener' = [listener EXCEPT !.running = FALSE]
  /\ UNCHANGED <<config, overrides, window_class, steps, ctx, transcript, pc, idx, requests,
                 applied, raised, detector, fed, vocabulary, invocations, capture, args,
                 cookie, transcribed, history, begins, savers,
                 action_pass>>

\* while self.running fails: the finally clause of start()
WakeExit ==
  /\ listener.at = "listening" /\ ~listener.running
  /\ listener' = [Unwound(listener) EXCEPT !.at = "stopped"]
  /\ UNCHANGED <<config, overrides, window_class, steps, ctx, transcript, pc, idx, requests,
                 applied, raised, detector, fed, vocabulary, invocations, capture, args,
                 cookie, transcribed, history, begins, savers,
                 action_pass>>

NextWake ==
  \/ \E starts \in BOOLEAN : WakeStart(starts)
  \/ \E outcome \in StopOutcomes : WakeStop(outcome)
  \/ Drain
  \/ WakeSignal
  \/ WakeExit

SpecWake == InitWake /\ [][NextWake]_vars

\* C22: detections alternate between starting a recording and
\* stopping-and-transcribing it, at most one recorder exists, the recording
\* flag is true exactly while a recorder handle and an audio path are held, and
\* after each stop-and-transcribe the listener is listening again (it has not
\* left its loop unless it was told to stop).
C22_ListenCycle ==
  LET heard == listener.detections
  IN  /\ \A i \in DOMAIN heard : heard[i].kind = (IF i % 2 = 1 THEN "start" ELSE "stop")
      /\ Cardinality(listener.alive) <= 1
      /\ listener.recording <=> (listener.rec_proc # <<>> /\ listener.audio_path # <<>>)
      /\ (heard # <<>> /\ heard[Len(heard)].kind = "stop") => listener.at # "crashed"

(***************************************************************************)
(* voice_commands.py: the action pass, one iteration of its loops at a time *)
(***************************************************************************)
\* the transcription with two action commands in a row
T_consecutive == <<"a"," ","d","e","l","e","t","e"," ","t","h","a","t"," ","b"," ","d","e","l","e","t","e"," ","t","h","a","t"," ","c">>

\* segment.text of the segments of a recording with action commands
ActionSegments ==
  {<<"o","k">>, <<"n","o",".">>, <<"d","e","l","e","t","e"," ","t","h","a","t">>,
   <<"U","N","D","O"," ","t","h","a","t">>,
   <<"S","c","r","a","t","c","h"," ","T","h","a","t">>}

\* transcribe_audio for one or two such segments, and the longer text
ActionTexts ==
  ({Strip(JoinParts(text_parts)) : text_parts \in SeqsUpTo(ActionSegments, 2)} \ {<<>>})
    \cup {T_consecutive}

\* apply_voice_commands has merged the commands and enters the for loop
InitAction ==
  /\ NoPipeline
  /\ NoFeeds
  /\ NoInvocations
  /\ NoCapture
  /\ NoCommand
  /\ NoHistory
  /\ NoListener
  /\ begins = [procs |-> <<>>, alive |-> {}]
  /\ savers = <<>>
  /\ pc = "voice"
  /\ config = MakeConfig(TRUE, TRUE, <<>>, FALSE, <<>>, FALSE, <<>>, FALSE, <<>>)
  /\ overrides = EmptyMap
  /\ transcript \in ActionTexts
  /\ action_pass = [text |-> transcript, phrase |-> 1, at |-> "looping"]

\* the body of "while pattern.search(text):" once
ActionIteration ==
  /\ action_pass.at = "looping"
  /\ SearchFrom(action_pass.text, ACTION_COMMANDS[action_pass.phrase], 0) # -1
  /\ action_pass' = [action_pass EXCEPT
                       !.text = ActionOnce(@, ACTION_COMMANDS[action_pass.phrase])]
  /\ UNCHANGED <<config, overrides, window_class, steps, ctx, transcript, pc, idx, requests,
                 applied, raised, detector, fed, vocabulary, invocations, capture, args,
                 cookie, transcribed, history, listener, begins, savers>>

\* pattern.search(text) finds nothing: the for loop takes the next phrase, or ends
NextPhrase ==
  /\ action_pass.at = "looping"
  /\ SearchFrom(action_pass.text, ACTION_COMMANDS[action_pass.phrase], 0) = -1
  /\ action_pass' = IF action_pass.phrase < Len(ACTION_COMMANDS)
                    THEN [action_pass EXCEPT !.phrase = @ + 1]
                    ELSE [action_pass EXCEPT !.at = "done"]
  /\ UNCHANGED <<config, overrides, window_class, steps, ctx, transcript, pc, idx, requests,
                 applied, raised, detector, fed, vocabulary, invocations, capture, args,
                 cookie, transcribed, history, listener, begins, savers>>

NextAction == ActionIteration \/ NextPhrase

SpecAction == InitAction /\ [][NextAction]_vars

\* the interpreter keeps running the loop
SpecActionLive == SpecAction /\ WF_action_pass(NextAction)

\* C23: the action pass terminates on every input: each iteration strictly
\* shortens the text, when the pass ends no action phrase remains, and
\* "a delete that b delete that c" leaves only "c".
C23_ActionPassTerminates ==
  /\ [][\/ Len(action_pass'.text) < Len(action_pass.text)
        \/ action_pass'.text = action_pass.text /\ action_pass' # action_pass]_vars
  /\ [](action_pass.at = "done" =>
          /\ C11_Starts(action_pass.text) = {}
          /\ transcript = T_consecutive => action_pass.text = <<"c">>)
  /\ <>(action_pass.at = "done")

C23_Witness ==
  /\ action_pass.at = "done"
  /\ transcript = T_consecutive
  /\ action_pass.text = <<"c">>

(***************************************************************************)
(* VoiceCommandStep over transcriptions holding one spoken command         *)
(***************************************************************************)
\* the spoken commands of the four replacement classes
SpokenCommands ==
  {<<"p","e","r","i","o","d">>, <<"o","p","e","n"," ","q","u","o","t","e">>, <<"c","l","o","s","e"," ","q","u","o","t","e">>,
   <<"o","p","e","n"," ","p","a","r","e","n">>, <<"c","l","o","s","e"," ","p","a","r","e","n">>,
   <<"h","a","s","h","t","a","g">>}

\* segment.text of the segments around the command
SpokenWords == {<<>>, <<"h","i">>, <<"o","k">>}

\* transcribe_audio for a command between two words, either of them missing
CommandTexts ==
  {Strip(JoinParts(<<w1, c, w2>>)) : w1 \in SpokenWords, c \in SpokenCommands, w2 \in SpokenWords}

InitCommands ==
  /\ InitCommon
  /\ pc = "start"
  /\ config = MakeConfig(TRUE, TRUE, <<>>, FALSE, <<>>, FALSE, <<>>, FALSE, <<>>)
  /\ overrides = EmptyMap
  /\ transcript \in CommandTexts

SpecCommands == InitCommands /\ [][NextVoice]_vars

\* the command spoken in text
C24_Spoken(text) == CHOOSE c \in SpokenCommands : SearchFrom(text, c, 0) # -1

\* what the claim has the match of the command emit, by the class of its
\* replacement
C24_Emit(c, at_start) ==
  LET replacement == BUILTIN_COMMANDS[KeyIndex(BUILTIN_COMMANDS, c)].val
  IN  IF Len(replacement) = 1 /\ replacement[1] \in ATTACH_LEFT
        THEN replacement \o <<" ">>
      ELSE IF c \in {<<"o","p","e","n"," ","q","u","o","t","e">>, <<"o","p","e","n"," ","p","a","r","e","n">>}
        THEN (IF at_start THEN <<>> ELSE <<" ">>) \o replacement
      ELSE IF c \in {<<"c","l","o","s","e"," ","q","u","o","t","e">>, <<"c","l","o","s","e"," ","p","a","r","e","n">>}
        THEN replacement \o <<" ">>
      ELSE <<" ">> \o replacement \o <<" ">>

\* the text after the substitution pass as the claim has it
C24_Substituted(text) ==
  LET c == C24_Spoken(text)
      start == SearchFrom(text, c, 0)
      before == RStrip(Slice(text, 0, start))
      after == LStrip(Slice(text, start + Len(c), Len(text)))
  IN  before \o C24_Emit(c, before = <<>>) \o after

\* C24: in the substitution pass each match is emitted by the class of its
\* replacement: attach-left punctuation followed by one space, a bracket-open
\* replacement ("(" and "open quote") with one leading space unless at text
\* start and no trailing space, a bracket-close replacement (")" and "close
\* quote") with one trailing space and no leading space, any other literal
\* with a space on each side.
C24_EmittedByClass ==
  pc = "done" => ctx.text = Normalize(C24_Substituted(transcript))

(***************************************************************************)
(* VoiceCommandStep over texts of spaces, brackets and punctuation         *)
(***************************************************************************)
\* the longest of the short texts
MaxNormLen == 3

\* the characters of the short texts
NormChars == {"b", " ", "\t", ".", "\n", "(", ")"}

T_hello_comma == <<"h","e","l","l","o"," ","c","o","m","m","a"," ","w","o","r","l","d"," ","p","e","r","i","o","d">>
T_brackets == <<"a"," ","("," ","\t"," ","b"," ",")"," "," ",".">>

\* a custom command whose replacement holds spaces and brackets
V_gap == [from |-> <<"b">>, to |-> <<")", " ", " ", "(", " ">>]

\* Pipeline([VoiceCommandStep(custom)]).process(PipelineContext(text)) is entered
InitNormalize ==
  /\ NoFeeds
  /\ Idle
  /\ window_class = <<>>
  /\ requests = <<>>
  /\ applied = <<>>
  /\ raised = ""
  /\ config = DefaultConfig
  /\ overrides = EmptyMap
  /\ transcript \in (SeqsUpTo(NormChars, MaxNormLen) \ {<<>>}) \cup {T_hello_comma, T_brackets}
  /\ \E custom \in {<<>>, <<V_gap>>} : steps = <<VoiceCommandStep(custom)>>
  /\ ctx = PipelineContext(transcript)
  /\ idx = 1
  /\ pc = "running"

NextNormalize ==
  \/ VoiceCommandProcess
  \/ ProcessReturn

SpecNormalize == InitNormalize /\ [][NextNormalize]_vars

\* s holds x immediately followed by y, for x in xs and y in ys
C25_Adjacent(s, xs, ys) ==
  \E i \in 1..(Len(s) - 1) : s[i] \in xs /\ s[i + 1] \in ys

\* C25: the text the voice-command engine returns for a non-empty input has no
\* run of two or more spaces or tabs, no space before . , ? ! : ; or a newline,
\* no space after "(" or before ")", and no whitespace at either end;
\* "hello comma world period" becomes "hello, world.".
C25_Normalized ==
  pc = "done" =>
    LET s == ctx.text
    IN  /\ ~C25_Adjacent(s, {" ", "\t"}, {" ", "\t"})
        /\ ~C25_Adjacent(s, {" "}, ATTACH_LEFT \cup {"\n", ")"})
        /\ ~C25_Adjacent(s, {"("}, {" "})
        /\ s # <<>> => s[1] \notin {" ", "\t", "\n"} /\ s[Len(s)] \notin {" ", "\t", "\n"}
        /\ transcript = T_hello_comma => s = <<"h","e","l","l","o",","," ","w","o","r","l","d",".">>

C25_Witness ==
  /\ pc = "done"
  /\ transcript = T_brackets
  /\ ctx.text = <<"a"," ","(","b",")",".">>

(***************************************************************************)
(* VoiceCommandStep over transcriptions holding whitespace commands        *)
(***************************************************************************)
\* segment.text of the segments of a recording with whitespace commands
WhitespaceSegments ==
  {<<"h","i">>, <<"p","e","r","i","o","d">>, <<"n","e","w"," ","l","i","n","e">>,
   <<"n","e","w"," ","p","a","r","a","g","r","a","p","h">>, <<"t","a","b">>}

\* transcribe_audio for up to three such segments
WhitespaceTexts ==
  {Strip(JoinParts(text_parts)) : text_parts \in SeqsUpTo(WhitespaceSegments, 3)} \ {<<>>}

InitWhitespace ==
  /\ InitCommon
  /\ pc = "start"
  /\ config = MakeConfig(TRUE, TRUE, <<>>, FALSE, <<>>, FALSE, <<>>, FALSE, <<>>)
  /\ overrides = EmptyMap
  /\ transcript \in WhitespaceTexts

SpecWhitespace == InitWhitespace /\ [][NextVoice]_vars

RECURSIVE C26_Count(_, _, _)
\* the occurrences of lit in text at or after the 0-based position p
C26_Count(text, lit, p) ==
  LET at == SearchFrom(text, lit, p)
  IN  IF at = -1 THEN 0 ELSE 1 + C26_Count(text, lit, at + Len(lit))

\* C26: every "new line", "new paragraph" and "tab" spoken yields its newline,
\* blank line or tab verbatim in the returned text, wherever the command
\* occurs: at the end of the text, next to punctuation, or repeated.
C26_WhitespaceVerbatim ==
  pc = "done" =>
    /\ C26_Count(ctx.text, <<"\n">>, 0) =
         C26_Count(transcript, <<"n","e","w"," ","l","i","n","e">>, 0)
           + 2 * C26_Count(transcript, <<"n","e","w"," ","p","a","r","a","g","r","a","p","h">>, 0)
    /\ C26_Count(ctx.text, <<"\t">>, 0) = C26_Count(transcript, <<"t","a","b">>, 0)

\* C27 as stated: whenever feed returns true the chunk just fed was below the
\* threshold and the below-threshold chunks fed in a row since the last loud
\* chunk or reset total at least duration x sample_rate samples.
C27_TrueOnlyAfterDuration ==
  \A i \in DOMAIN fed :
    (fed[i].op = "feed" /\ fed[i].ret) =>
      /\ fed[i].below
      /\ Cumulative(i) * detector.duration.den
           >= detector.duration.num * detector.sample_rate

\* what holds instead: whenever feed returns true the chunk held a sample, and either
\* it was below the threshold and the below-threshold chunks fed in a row since
\* the last loud chunk or reset total at least int(duration x sample_rate)
\* samples, or it was loud and int(duration x sample_rate) is zero or less.
C27_TrueOnlyAfterTruncatedProduct ==
  \A i \in DOMAIN fed :
    (fed[i].op = "feed" /\ fed[i].ret) =>
      LET required == IntOf(detector.duration.num * detector.sample_rate,
                            detector.duration.den)
      IN  /\ fed[i].n >= 1
          /\ IF fed[i].below THEN Cumulative(i) >= required ELSE required <= 0

(***************************************************************************)
(* dictation.py: begin commands started side by side                       *)
(***************************************************************************)
MaxBegins == 2

\* the PID of the recorder the begin command number p starts
RecorderPid(p) == ToString(100 + p)

\* the begin commands have parsed their arguments; none has looked at the cookie
InitBegins ==
  /\ NoPipeline
  /\ NoFeeds
  /\ NoInvocations
  /\ NoCapture
  /\ NoCommand
  /\ NoHistory
  /\ NoListener
  /\ savers = <<>>
  /\ action_pass = [text |-> <<>>, phrase |-> 1, at |-> "off"]
  /\ pc = "shell"
  /\ config = DefaultConfig
  /\ overrides = EmptyMap
  /\ transcript = <<>>
  /\ \E n \in 1..MaxBegins :
       \E given \in [1..n -> BeginArgs] :
         begins = [procs |-> [p \in 1..n |-> [at |-> "check", args |-> given[p]]],
                   alive |-> {}]

\* if COOKIE_FILE.exists(): sys.exit(1); the environment is valid and the
\* microphone is not muted
BeginCheck(p) ==
  /\ begins.procs[p].at = "check"
  /\ begins' = [begins EXCEPT !.procs[p].at = IF cookie # <<>> THEN "exited" ELSE "record"]
  /\ UNCHANGED <<config, overrides, window_class, steps, ctx, transcript, pc, idx, requests,
                 applied, raised, detector, fed, vocabulary, invocations, capture, args,
                 cookie, transcribed, history, listener, savers, action_pass>>

\* proc = record_audio(AUDIO_FILE, backend)
BeginRecord(p) ==
  /\ begins.procs[p].at = "record"
  /\ begins' = [begins EXCEPT !.procs[p].at = "write", !.alive = @ \cup {RecorderPid(p)}]
  /\ UNCHANGED <<config, overrides, window_class, steps, ctx, transcript, pc, idx, requests,
                 applied, raised, detector, fed, vocabulary, invocations, capture, args,
                 cookie, transcribed, history, listener, savers, action_pass>>

\* COOKIE_FILE.write_text(f"{proc.pid}\n{config.model.name}\n{config.model.device}")
BeginWrite(p) ==
  /\ begins.procs[p].at = "write"
  /\ LET cfg == merge_cli_args(config, begins.procs[p].args)
     IN  cookie' = <<RecorderPid(p), cfg.model.name, cfg.model.device>>
  /\ begins' = [begins EXCEPT !.procs[p].at = "done"]
  /\ UNCHANGED <<config, overrides, window_class, steps, ctx, transcript, pc, idx, requests,
                 applied, raised, detector, fed, vocabulary, invocations, capture, args,
                 transcribed, history, listener, savers, action_pass>>

\* a later end or cancel, up to COOKIE_FILE.unlink(): os.kill(pid, SIGTERM) for
\* the PID of the cookie
StopRecorder(command) ==
  /\ pc = "shell" /\ cookie # <<>>
  /\ \A p \in DOMAIN begins.procs : begins.procs[p].at \in {"done", "exited"}
  /\ begins' = [begins EXCEPT !.alive = @ \ {StripSplit(cookie)[1]}]
  /\ cookie' = <<>>
  /\ pc' = command
  /\ UNCHANGED <<config, overrides, window_class, steps, ctx, transcript, idx, requests,
                 applied, raised, detector, fed, vocabulary, invocations, capture, args,
                 transcribed, history, listener, savers, action_pass>>

NextBegins ==
  \/ \E p \in DOMAIN begins.procs : BeginCheck(p)
  \/ \E p \in DOMAIN begins.procs : BeginRecord(p)
  \/ \E p \in DOMAIN begins.procs : BeginWrite(p)
  \/ \E command \in {"end", "cancel"} : StopRecorder(command)

SpecBegins == InitBegins /\ [][NextBegins]_vars

\* C28: of begin commands run side by side at most one passes the
\* already-running check and starts a recorder, so at most one recorder is
\* alive, and every recorder started has its PID in the cookie, so that a later
\* end or cancel stops it.
C28_OneRecorder ==
  /\ Cardinality({p \in DOMAIN begins.procs :
                    begins.procs[p].at \in {"record", "write", "done"}}) <= 1
  /\ Cardinality(begins.alive) <= 1
  /\ (\A p \in DOMAIN begins.procs : begins.procs[p].at \in {"done", "exited"}) =>
       begins.alive \subseteq (IF cookie = <<>> THEN {} ELSE {cookie[1]})

\* C29: every override map returned by get_profile_overrides has keys only
\* among typing_method and auto_capitalize and no null value; hence in the
\* session the Voice-Command step is included exactly when the pipeline flag
\* and the voice-commands feature flag are both on, whatever the focused
\* application is.
C29_VoiceStepByFlags ==
  /\ DOMAIN overrides \subseteq {"typing_method", "auto_capitalize"}
  /\ "typing_method" \in DOMAIN overrides =>
       overrides["typing_method"] \in {"xdotool", "ydotool", "clipboard"}
  /\ "auto_capitalize" \in DOMAIN overrides => overrides["auto_capitalize"] \in BOOLEAN
  /\ pc \in {"built", "running", "done", "raised"} =>
       (Includes("Voice Commands")
          <=> (config.pipeline.voice_commands /\ config.voice_commands.enabled))

\* a terminal in focus, its rule applied, the two flags on and the step built
C29_Witness ==
  /\ pc = "built"
  /\ window_class = W_xterm
  /\ DOMAIN overrides = {"typing_method", "auto_capitalize"}
  /\ config.pipeline.voice_commands /\ config.voice_commands.enabled
  /\ Includes("Voice Commands")

(***************************************************************************)
(* history.py: sessions saving to one history file side by side            *)
(***************************************************************************)
MaxSavers == 2

\* each session has built its entry and enters TranscriptionHistory.save
InitSavers ==
  /\ NoPipeline
  /\ NoFeeds
  /\ NoInvocations
  /\ NoCapture
  /\ NoCommand
  /\ NoListener
  /\ begins = [procs |-> <<>>, alive |-> {}]
  /\ action_pass = [text |-> <<>>, phrase |-> 1, at |-> "off"]
  /\ pc = "saving"
  /\ config = DefaultConfig
  /\ overrides = EmptyMap
  /\ transcript = <<>>
  /\ \E lines \in FoundFiles, max_entries \in {1, 2, DefaultMaxEntries} :
       history = [file |-> lines, max_entries |-> max_entries, saved |-> 0,
                  asked |-> <<>>, recent |-> <<>>]
  /\ \E n \in 1..MaxSavers :
       savers = [p \in 1..n |-> [at |-> "append", entry |-> 0, keep |-> <<>>]]

\* with open(self.path, "a") as f: f.write(json.dumps(asdict(entry)) + "\n")
SaveAppend(p) ==
  /\ savers[p].at = "append"
  /\ history' = [history EXCEPT !.file = Append(@, EntryLine(history.saved + 1)),
                                !.saved = @ + 1]
  /\ savers' = [savers EXCEPT ![p].at = "read", ![p].entry = history.saved + 1]
  /\ UNCHANGED <<config, overrides, window_class, steps, ctx, transcript, pc, idx, requests,
                 applied, raised, detector, fed, vocabulary, invocations, capture, args,
                 cookie, transcribed, listener, begins, action_pass>>

\* _prune_if_needed up to the write: lines = self.path.read_text().splitlines();
\* return if len(lines) <= self.max_entries; keep = lines[-self.max_entries:]
SaveRead(p) ==
  /\ savers[p].at = "read"
  /\ savers' = IF Len(history.file) <= history.max_entries
               THEN [savers EXCEPT ![p].at = "done"]
               ELSE [savers EXCEPT ![p].at = "write",
                                   ![p].keep = SliceFrom(history.file, 0 - history.max_entries)]
  /\ UNCHANGED <<config, overrides, window_class, steps, ctx, transcript, pc, idx, requests,
                 applied, raised, detector, fed, vocabulary, invocations, capture, args,
                 cookie, transcribed, history, listener, begins, action_pass>>

\* self.path.write_text("\n".join(keep) + "\n")
SaveWrite(p) ==
  /\ savers[p].at = "write"
  /\ history' = [history EXCEPT !.file = savers[p].keep]
  /\ savers' = [savers EXCEPT ![p].at = "done", ![p].keep = <<>>]
  /\ UNCHANGED <<config, overrides, window_class, steps, ctx, transcript, pc, idx, requests,
                 applied, raised, detector, fed, vocabulary, invocations, capture, args,
                 cookie, transcribed, listener, begins, action_pass>>

NextSavers ==
  \/ \E p \in DOMAIN savers : SaveAppend(p)
  \/ \E p \in DOMAIN savers : SaveRead(p)
  \/ \E p \in DOMAIN savers : SaveWrite(p)

SpecSavers == InitSavers /\ [][NextSavers]_vars

\* C30: when sessions save to one file in any interleaving no saved entry is
\* lost: once every save has returned the file holds every entry saved, except
\* those pruned as the oldest beyond max_entries.
C30_NoEntryLost ==
  (\A p \in DOMAIN savers : savers[p].at = "done") =>
    \A k \in 1..history.saved :
      history.saved - k < history.max_entries =>
        \E i \in DOMAIN history.file : history.file[i] = EntryLine(k)

====
